---- MODULE Spec2Model ----
(***************************************************************************)
(* ShortCircuitBot: the universe graph, its background refreshers          *)
(* (Tripwire Fetcher, Thera updater) and the route query of the bot        *)
(* Service, modelled from the Go sources.                                  *)
(*                                                                         *)
(* A Go map is a reference: main builds one map and hands the same map to  *)
(* Fetcher, Service and TheraUpdater.  The model keeps a heap of map       *)
(* objects and, per service, the reference held in its universeGraph       *)
(* field.  A graph is a function from the keys present in the map to the   *)
(* neighbour slice (a sequence, duplicates possible).                      *)
(***************************************************************************)
EXTENDS Integers, Sequences, FiniteSets, TLC

\* ------------------------------------------------------------------------
\* Bounds of the model
\* ------------------------------------------------------------------------
\* most wormhole records in one Tripwire payload
MaxWormholes == 2
\* most systems in the exclusion set of one pathfinder call
MaxAvoid == 1
\* most connections in one EVE-Scout answer
MaxConns == 1

\* ------------------------------------------------------------------------
\* Program constants
\* ------------------------------------------------------------------------
theraSystemID == 31000005
Zarzakh == 30100000
InfCost == 1000000000
\* lowestCost starts at 1e10 in the source; TLC integers are 32 bits wide, and
\* the scan only needs a start above every cost (costs never exceed InfCost)
ScanStart == 2000000000
Penalty == 100

\* nil pointer (a record, so that it compares with any struct value)
Nil == [nil |-> TRUE]
\* nil *string
NilStr == "<nil>"

\* ------------------------------------------------------------------------
\* strconv.Atoi on a text given as a sequence of one-character strings
\* ------------------------------------------------------------------------
Digits == {"0", "1", "2", "3", "4", "5", "6", "7", "8", "9"}

DigitVal(c) ==
  CASE c = "0" -> 0 [] c = "1" -> 1 [] c = "2" -> 2 [] c = "3" -> 3
    [] c = "4" -> 4 [] c = "5" -> 5 [] c = "6" -> 6 [] c = "7" -> 7
    [] c = "8" -> 8 [] c = "9" -> 9

RECURSIVE DecVal(_, _)
DecVal(s, acc) ==
  IF s = <<>> THEN acc ELSE DecVal(Tail(s), acc * 10 + DigitVal(Head(s)))

\* Atoi returns (value, err); on a syntax error the value is 0
Atoi(s) ==
  LET signed == Len(s) > 0 /\ Head(s) \in {"+", "-"}
      body   == IF signed THEN Tail(s) ELSE s
      ok     == Len(body) > 0 /\ \A i \in 1..Len(body) : body[i] \in Digits
  IN  IF ~ok THEN [val |-> 0, err |-> TRUE]
      ELSE [val |-> IF signed /\ Head(s) = "-" THEN 0 - DecVal(body, 0)
                    ELSE DecVal(body, 0),
            err |-> FALSE]

\* ------------------------------------------------------------------------
\* map[int][]int
\* ------------------------------------------------------------------------
EmptyGraph == [k \in {} |-> <<>>]

\* graph[k] of a Go map: the nil slice when the key is absent
Nbrs(graph, k) == IF k \in DOMAIN graph THEN graph[k] ELSE <<>>

\* graph[k] = append(graph[k], v)
AppendNbr(graph, k, v) ==
  [x \in (DOMAIN graph) \cup {k} |->
     IF x = k THEN Append(Nbrs(graph, k), v) ELSE graph[x]]

\* the two appends every insertion site performs
AddEdgeOneWay(graph, a, b) == AppendNbr(graph, a, b)
AddEdge(graph, a, b) == AppendNbr(AppendNbr(graph, a, b), b, a)

SeqToSet(s) == {s[i] : i \in 1..Len(s)}
NbrSet(graph, k) == SeqToSet(Nbrs(graph, k))

\* node -> neighbour set view of two graphs is the same
SameEdges(g, h) ==
  \A k \in (DOMAIN g) \cup (DOMAIN h) : NbrSet(g, k) = NbrSet(h, k)

\* all enumerations of a finite set (Go iterates a map in any order)
Orders(S) ==
  {f \in [1..Cardinality(S) -> S] : \A i, j \in 1..Cardinality(S) : f[i] = f[j] => i = j}

\* ------------------------------------------------------------------------
\* solar_map.go
\* ------------------------------------------------------------------------
\* mapSolarSystemJumps.csv: header, three gate pairs listed in both
\* directions as the static dump does, one short row, one non-numeric row
JumpsCSV ==
  << <<"fromRegionID", "fromConstellationID", "fromSolarSystemID", "toSolarSystemID", "toConstellationID", "toRegionID">>,
     << <<"1">>, <<"1">>, <<"1">>, <<"2">>, <<"1">>, <<"1">> >>,
     << <<"1">>, <<"1">>, <<"2">>, <<"1">>, <<"1">>, <<"1">> >>,
     << <<"1">>, <<"1">>, <<"2">>, <<"3">>, <<"1">>, <<"1">> >>,
     << <<"1">>, <<"1">>, <<"3">>, <<"2">>, <<"1">>, <<"1">> >>,
     << <<"1">>, <<"1">>, <<"3">>, <<"4">>, <<"1">>, <<"1">> >>,
     << <<"1">>, <<"1">>, <<"4">>, <<"3">>, <<"1">>, <<"1">> >>,
     << <<"1">>, <<"1">>, <<"4">> >>,
     << <<"1">>, <<"1">>, <<"x">>, <<"4">>, <<"1">>, <<"1">> >> >>

RECURSIVE BuildRows(_, _, _)
BuildRows(records, i, graph) ==
  IF i > Len(records) THEN graph
  ELSE LET rec == records[i] IN
       IF i = 1 \/ Len(rec) < 6 THEN BuildRows(records, i + 1, graph)
       ELSE LET fromSystem == Atoi(rec[3])
                toSystem   == Atoi(rec[4])
            IN  IF fromSystem.err \/ toSystem.err
                THEN BuildRows(records, i + 1, graph)
                ELSE BuildRows(records, i + 1,
                               AddEdge(graph, fromSystem.val, toSystem.val))

BuildGraphFromCSV(records) == BuildRows(records, 1, EmptyGraph)

RECURSIVE DedupSeq(_, _)
DedupSeq(neighbors, deduped) ==
  IF neighbors = <<>> THEN deduped
  ELSE IF Head(neighbors) \in SeqToSet(deduped)
       THEN DedupSeq(Tail(neighbors), deduped)
       ELSE DedupSeq(Tail(neighbors), Append(deduped, Head(neighbors)))

DeduplicateNeighbors(graph) ==
  [systemID \in DOMAIN graph |-> DedupSeq(graph[systemID], <<>>)]

\* ------------------------------------------------------------------------
\* Tripwire payloads (models.go: TripwireData, Signature, Wormhole)
\* ------------------------------------------------------------------------
\* Signatures of the payloads, keyed by signature id.  SystemID is text,
\* SignatureID is a *string (Nil when the JSON value is null).
SigTable ==
  [id \in {"a1", "a2", "a4", "u4", "n3", "z3", "???"} |->
     CASE id = "a1"  -> [SystemID |-> <<"1">>, SignatureID |-> "ABC"]
       [] id = "a2"  -> [SystemID |-> <<"2">>, SignatureID |-> "JKL"]
       [] id = "a4"  -> [SystemID |-> <<"4">>, SignatureID |-> "XYZ"]
       [] id = "u4"  -> [SystemID |-> <<"4">>, SignatureID |-> "???"]
       [] id = "n3"  -> [SystemID |-> <<"3">>, SignatureID |-> NilStr]
       [] id = "z3"  -> [SystemID |-> <<>>,    SignatureID |-> "DEF"]
       [] id = "???" -> [SystemID |-> <<"2">>, SignatureID |-> "GHI"]]

\* Wormhole records a payload may carry, keyed by wormhole id
WormholeTable ==
  [id \in {"w14", "w12", "w14u", "w13n", "w1z", "wgone", "wq"} |->
     CASE id = "w14"   -> [InitialID |-> "a1",  SecondaryID |-> "a4"]
       [] id = "w12"   -> [InitialID |-> "a1",  SecondaryID |-> "a2"]
       [] id = "w14u"  -> [InitialID |-> "a1",  SecondaryID |-> "u4"]
       [] id = "w13n"  -> [InitialID |-> "n3",  SecondaryID |-> "a1"]
       [] id = "w1z"   -> [InitialID |-> "a1",  SecondaryID |-> "z3"]
       [] id = "wgone" -> [InitialID |-> "a1",  SecondaryID |-> "gone"]
       [] id = "wq"    -> [InitialID |-> "???", SecondaryID |-> "a4"]]

TripwireDataOf(whIds) ==
  [Signatures |-> SigTable, Wormholes |-> [id \in whIds |-> WormholeTable[id]]]

\* what Scraper.FetchData can return on success
TripwirePayloads ==
  {TripwireDataOf(S) : S \in {T \in SUBSET (DOMAIN WormholeTable) : Cardinality(T) <= MaxWormholes}}

\* tripwire_data.json as found at process start (Nil: no file)
StartupFiles == {Nil, TripwireDataOf({"w14", "w13n"})}

\* the record's two system ids as the insertion sites compute them
WhSysA(data, wh) == Atoi(data.Signatures[wh.InitialID].SystemID).val
WhSysB(data, wh) == Atoi(data.Signatures[wh.SecondaryID].SystemID).val
WhResolves(data, wh) ==
  wh.InitialID \in DOMAIN data.Signatures /\ wh.SecondaryID \in DOMAIN data.Signatures

\* solar_map.go AddTripwireWormholesToGraph: the guard of one record
StartupRecordValid(data, wh) ==
  /\ WhResolves(data, wh)
  /\ LET sigA == data.Signatures[wh.InitialID]
         sigB == data.Signatures[wh.SecondaryID]
         isSigAValid == WhSysA(data, wh) # 0 /\ sigA.SignatureID # NilStr /\ sigA.SignatureID # "???"
         isSigBValid == WhSysB(data, wh) # 0 /\ sigB.SignatureID # NilStr /\ sigB.SignatureID # "???"
     IN  isSigAValid /\ isSigBValid

\* tw_fetcher.go updateTripwireData: the guard of one record
RefreshRecordValid(data, wh) ==
  /\ WhResolves(data, wh)
  /\ WhSysA(data, wh) # 0 /\ WhSysB(data, wh) # 0

\* src/tw_fetcher.go fetchAndSaveData: the guard of one record
CombinedRecordValid(data, wh) ==
  /\ ~(wh.InitialID = "???" \/ wh.SecondaryID = "???")
  /\ WhResolves(data, wh)
  /\ WhSysA(data, wh) # 0 /\ WhSysB(data, wh) # 0

\* for _, wh := range data.Wormholes, in the iteration order `order`
RECURSIVE AddTripwireRecords(_, _, _, _)
AddTripwireRecords(graph, data, order, i) ==
  IF i > Len(order) THEN graph
  ELSE LET wh == data.Wormholes[order[i]] IN
       IF StartupRecordValid(data, wh)
       THEN AddTripwireRecords(AddEdge(graph, WhSysA(data, wh), WhSysB(data, wh)), data, order, i + 1)
       ELSE AddTripwireRecords(graph, data, order, i + 1)

AddTripwireWormholesToGraph(graph, data, order) ==
  IF data = Nil THEN graph ELSE AddTripwireRecords(graph, data, order, 1)

RECURSIVE MergeRefreshRecords(_, _, _, _)
MergeRefreshRecords(newGraph, data, order, i) ==
  IF i > Len(order) THEN newGraph
  ELSE LET wh == data.Wormholes[order[i]] IN
       IF RefreshRecordValid(data, wh)
       THEN MergeRefreshRecords(AddEdge(newGraph, WhSysA(data, wh), WhSysB(data, wh)), data, order, i + 1)
       ELSE MergeRefreshRecords(newGraph, data, order, i + 1)

\* variant of MergeTripwire that merges only the first record it iterates over
MergeTripwireFirstOnly(base, data, order) ==
  IF data = Nil \/ order = <<>> THEN base
  ELSE MergeRefreshRecords(base, data, <<order[1]>>, 1)

\* updateTripwireData lines 179-201: copy of the base plus the payload
MergeTripwire(base, data, order) ==
  IF data = Nil THEN base ELSE MergeRefreshRecords(base, data, order, 1)

\* ------------------------------------------------------------------------
\* EVE-Scout answers
\* ------------------------------------------------------------------------
\* []TheraConnection: DestinationSystem is a pointer (Nil) to {ID int}
ConnUniverse == {[DestinationSystem |-> Nil],
                 [DestinationSystem |-> [ID |-> 0]],
                 [DestinationSystem |-> [ID |-> 4]]}

SeqsUpTo(S, n) == UNION {[1..m -> S] : m \in 0..n}

TheraAnswers == SeqsUpTo(ConnUniverse, MaxConns)

\* variant of AddTheraConnection that forgets the reverse append
AddTheraConnectionOneWay(graph, conn) ==
  IF conn.DestinationSystem # Nil
  THEN AddEdgeOneWay(graph, theraSystemID, conn.DestinationSystem.ID)
  ELSE graph

\* one iteration of the loop of updateGraph / of main's startup loop
AddTheraConnection(graph, conn) ==
  IF conn.DestinationSystem # Nil
  THEN AddEdge(graph, theraSystemID, conn.DestinationSystem.ID)
  ELSE graph

RECURSIVE AddTheraConnections(_, _, _)
AddTheraConnections(graph, conns, i) ==
  IF i > Len(conns) THEN graph
  ELSE AddTheraConnections(AddTheraConnection(graph, conns[i]), conns, i + 1)

\* []Route of GetAllRoutes (combined Fetcher)
RouteUniverse == {[InSystemID |-> 1, OutSystemID |-> 4],
                  [InSystemID |-> 0, OutSystemID |-> 2]}

ScoutAnswers == SeqsUpTo(RouteUniverse, MaxConns)

RECURSIVE AddScoutRoutes(_, _, _)
AddScoutRoutes(newGraph, routes, i) ==
  IF i > Len(routes) THEN newGraph
  ELSE AddScoutRoutes(AddEdge(newGraph, routes[i].InSystemID, routes[i].OutSystemID), routes, i + 1)

\* fetchAndSaveData lines 232-255: the loop stops at the first accepted
\* record, where s.esiClient (nil, see New) is dereferenced by GetSystemName
RECURSIVE MergeCombinedRecords(_, _, _, _)
MergeCombinedRecords(newGraph, data, order, i) ==
  IF i > Len(order) THEN [graph |-> newGraph, panic |-> FALSE]
  ELSE LET wh == data.Wormholes[order[i]] IN
       IF CombinedRecordValid(data, wh)
       THEN [graph |-> AddEdge(newGraph, WhSysA(data, wh), WhSysB(data, wh)), panic |-> TRUE]
       ELSE MergeCombinedRecords(newGraph, data, order, i + 1)

\* fetchAndSaveData lines 224-260
MergeCombined(base, data, order, routes) ==
  LET tw == IF data = Nil THEN [graph |-> base, panic |-> FALSE]
            ELSE MergeCombinedRecords(base, data, order, 1)
  IN  IF tw.panic THEN tw
      ELSE [graph |-> DeduplicateNeighbors(AddScoutRoutes(tw.graph, routes, 1)),
            panic |-> FALSE]

\* ------------------------------------------------------------------------
\* bot_service.go FindPreferredPath, one iteration of the outer loop at a time
\* ------------------------------------------------------------------------
\* ESIClient.systemInfoCache: id -> details, read by GetSystemDetails
VARIABLE systemInfoCache

\* a Go string is a sequence of one-character strings
UpperLetters == <<"A", "B", "C", "D", "E", "F", "G", "H", "I", "J", "K", "L", "M", "N", "O", "P", "Q", "R", "S", "T", "U", "V", "W", "X", "Y", "Z">>
LowerLetters == <<"a", "b", "c", "d", "e", "f", "g", "h", "i", "j", "k", "l", "m", "n", "o", "p", "q", "r", "s", "t", "u", "v", "w", "x", "y", "z">>

LowerChar(c) ==
  IF \E i \in 1..26 : UpperLetters[i] = c
  THEN LowerLetters[CHOOSE i \in 1..26 : UpperLetters[i] = c]
  ELSE c

\* strings.ToLower and strings.EqualFold on the letters A-Z, a-z
ToLower(str) == [i \in 1..Len(str) |-> LowerChar(str[i])]
EqualFold(a, b) == ToLower(a) = ToLower(b)

\* names of the systems of the universe
SystemName(id) ==
  CASE id = 1 -> <<"J", "i", "t", "a">> [] id = 2 -> <<"A", "m", "a", "r", "r">> [] id = 3 -> <<"R", "e", "n", "s">> [] id = 4 -> <<"H", "e", "k">>
    [] id = theraSystemID -> <<"T", "h", "e", "r", "a">>

\* system_cache.json as loaded by LoadSystemCache: SecurityStatus in tenths.
\* Thera and system 0 have no entry.
SystemCacheFile ==
  [id \in {1, 2, 3, 4} |->
     [Name |-> SystemName(id),
      SecurityStatus |-> CASE id = 1 -> 9 [] id = 2 -> 3 [] id = 3 -> 9 [] id = 4 -> 6]]

\* LoadSystemCache lines 408-414: the Name->ID cache built from the
\* decoded file
IDCacheOf(cacheData) ==
  [key \in {ToLower(cacheData[id].Name) : id \in DOMAIN cacheData} |->
     CHOOSE id \in DOMAIN cacheData : ToLower(cacheData[id].Name) = key]

HighSecTenths == 5

\* costs[id] of a Go map[int]float64: 0 when the key is absent
CostOf(costs, id) == IF id \in DOMAIN costs THEN costs[id] ELSE 0

MapSet(m, k, v) == [x \in (DOMAIN m) \cup {k} |-> IF x = k THEN v ELSE m[x]]

\* variant of FPPStart without the loop that sets every cost to 1e9
FPPStartZeroCosts(graph, startID) ==
  [costs   |-> [id \in {startID} |-> 0],
   parents |-> [id \in {} |-> 0],
   pq      |-> <<startID>>]

\* lines 430-436
FPPStart(graph, startID) ==
  [costs   |-> [id \in (DOMAIN graph) \cup {startID} |-> IF id = startID THEN 0 ELSE InfCost],
   parents |-> [id \in {} |-> 0],
   pq      |-> <<startID>>]

\* variant of ScanPQ that takes the newest entry of pq instead of the cheapest
ScanPQNewest(pq, costs, i, lowestCost, currentIndex) == Len(pq)

\* lines 439-446: index of the first entry of pq with the lowest cost (0: none)
RECURSIVE ScanPQ(_, _, _, _, _)
ScanPQ(pq, costs, i, lowestCost, currentIndex) ==
  IF i > Len(pq) THEN currentIndex
  ELSE IF CostOf(costs, pq[i]) < lowestCost
       THEN ScanPQ(pq, costs, i + 1, CostOf(costs, pq[i]), i)
       ELSE ScanPQ(pq, costs, i + 1, lowestCost, currentIndex)

RemoveAt(seq, idx) == SubSeq(seq, 1, idx - 1) \o SubSeq(seq, idx + 1, Len(seq))

\* variant of StepCost that charges the penalty for a system without a cache
\* entry
StepCostUnknownPenalised(neighborID, preference) ==
  IF preference = "shortest" THEN 1
  ELSE IF neighborID \notin DOMAIN systemInfoCache THEN 1 + Penalty
  ELSE LET isHighSec == systemInfoCache[neighborID].SecurityStatus >= HighSecTenths IN
       IF preference = "safer" /\ ~isHighSec THEN 1 + Penalty
       ELSE IF preference = "unsafe" /\ isHighSec THEN 1 + Penalty
       ELSE 1

\* variant of StepCost with the two preferences' penalties exchanged
StepCostExchanged(neighborID, preference) ==
  IF preference # "shortest" /\ neighborID \in DOMAIN systemInfoCache
  THEN LET isHighSec == systemInfoCache[neighborID].SecurityStatus >= HighSecTenths IN
       IF preference = "safer" /\ isHighSec THEN 1 + Penalty
       ELSE IF preference = "unsafe" /\ ~isHighSec THEN 1 + Penalty
       ELSE 1
  ELSE 1

\* lines 478-488
StepCost(neighborID, preference) ==
  IF preference # "shortest" /\ neighborID \in DOMAIN systemInfoCache
  THEN LET isHighSec == systemInfoCache[neighborID].SecurityStatus >= HighSecTenths IN
       IF preference = "safer" /\ ~isHighSec THEN 1 + Penalty
       ELSE IF preference = "unsafe" /\ isHighSec THEN 1 + Penalty
       ELSE 1
  ELSE 1

\* variant of Relax that puts a neighbour on the frontier whenever it is not
\* waiting there already, whether or not its cost decreases
RECURSIVE RelaxRequeue(_, _, _, _, _, _)
RelaxRequeue(st, neighbors, i, currentID, preference, avoidList) ==
  IF i > Len(neighbors) THEN st
  ELSE LET neighborID == neighbors[i] IN
       IF neighborID \in avoidList
       THEN RelaxRequeue(st, neighbors, i + 1, currentID, preference, avoidList)
       ELSE LET newCost == CostOf(st.costs, currentID) + StepCost(neighborID, preference)
                lower == newCost < CostOf(st.costs, neighborID)
            IN  RelaxRequeue([costs   |-> IF lower THEN MapSet(st.costs, neighborID, newCost)
                                          ELSE st.costs,
                              parents |-> IF lower THEN MapSet(st.parents, neighborID, currentID)
                                          ELSE st.parents,
                              pq      |-> IF neighborID \in SeqToSet(st.pq) THEN st.pq
                                          ELSE Append(st.pq, neighborID)],
                             neighbors, i + 1, currentID, preference, avoidList)

\* lines 473-495
RECURSIVE Relax(_, _, _, _, _, _)
Relax(st, neighbors, i, currentID, preference, avoidList) ==
  IF i > Len(neighbors) THEN st
  ELSE LET neighborID == neighbors[i] IN
       IF neighborID \in avoidList
       THEN Relax(st, neighbors, i + 1, currentID, preference, avoidList)
       ELSE LET newCost == CostOf(st.costs, currentID) + StepCost(neighborID, preference) IN
            IF newCost < CostOf(st.costs, neighborID)
            THEN Relax([costs   |-> MapSet(st.costs, neighborID, newCost),
                        parents |-> MapSet(st.parents, neighborID, currentID),
                        pq      |-> Append(st.pq, neighborID)],
                       neighbors, i + 1, currentID, preference, avoidList)
            ELSE Relax(st, neighbors, i + 1, currentID, preference, avoidList)

\* variant of Reconstruct that stops at a system without a parent and
\* returns what it has collected (the loop `for at := endID; at != 0;
\* at = parents[at]` of the earlier FindPreferredPath)
RECURSIVE ReconstructTruncating(_, _, _, _)
ReconstructTruncating(parents, startID, at, path) ==
  IF at = startID THEN <<at>> \o path
  ELSE IF at \notin DOMAIN parents THEN <<at>> \o path
       ELSE ReconstructTruncating(parents, startID, parents[at], <<at>> \o path)

\* variant of Reconstruct that leaves the loop at the start system before
\* prepending it
ReconstructWithoutStart(parents, startID, at, path) ==
  IF at = startID THEN path
  ELSE IF at \notin DOMAIN parents THEN <<>>
       ELSE <<at>> \o path

\* lines 456-470; the nil slice is the empty sequence
RECURSIVE Reconstruct(_, _, _, _)
Reconstruct(parents, startID, at, path) ==
  IF at = startID THEN <<at>> \o path
  ELSE IF at \notin DOMAIN parents THEN <<>>
       ELSE Reconstruct(parents, startID, parents[at], <<at>> \o path)

\* lines 438-497: the loop of FindPreferredPath run to its return
RECURSIVE FPPLoop(_, _, _, _, _, _)
FPPLoop(graph, st, startID, endID, preference, avoidList) ==
  IF Len(st.pq) = 0 THEN <<>>
  ELSE LET currentIndex == ScanPQ(st.pq, st.costs, 1, ScanStart, 0) IN
       IF currentIndex = 0 THEN <<>>
       ELSE LET currentID == st.pq[currentIndex]
                popped == [st EXCEPT !.pq = RemoveAt(st.pq, currentIndex)]
            IN  IF currentID = endID
                THEN Reconstruct(st.parents, startID, endID, <<>>)
                ELSE FPPLoop(graph,
                             Relax(popped, Nbrs(graph, currentID), 1, currentID,
                                   preference, avoidList),
                             startID, endID, preference, avoidList)

\* variant of FindPreferredPath that treats the systems the preference
\* penalises as excluded
FindPreferredPathStrict(graph, startID, endID, preference, avoidList) ==
  FPPLoop(graph, FPPStart(graph, startID), startID, endID, preference,
          avoidList \cup {n \in DOMAIN graph : StepCost(n, preference) > 1})

FindPreferredPath(graph, startID, endID, preference, avoidList) ==
  FPPLoop(graph, FPPStart(graph, startID), startID, endID, preference, avoidList)

\* ------------------------------------------------------------------------
\* FindShortestPath (breadth-first search) of the earlier route command
\* ------------------------------------------------------------------------
\* variant of BFSVisit that does not consult the avoid list
RECURSIVE BFSVisitThroughAvoided(_, _, _, _, _)
BFSVisitThroughAvoided(bfs, neighbors, i, currentSystem, avoidList) ==
  IF i > Len(neighbors) THEN bfs
  ELSE LET neighbor == neighbors[i] IN
       IF neighbor \notin DOMAIN bfs.visited
       THEN BFSVisitThroughAvoided([queue   |-> Append(bfs.queue, neighbor),
                                    visited |-> MapSet(bfs.visited, neighbor, currentSystem),
                                    head    |-> bfs.head],
                                   neighbors, i + 1, currentSystem, avoidList)
       ELSE BFSVisitThroughAvoided(bfs, neighbors, i + 1, currentSystem, avoidList)

\* lines 268-273: the neighbours of currentSystem
RECURSIVE BFSVisit(_, _, _, _, _)
BFSVisit(bfs, neighbors, i, currentSystem, avoidList) ==
  IF i > Len(neighbors) THEN bfs
  ELSE LET neighbor == neighbors[i] IN
       IF neighbor \notin DOMAIN bfs.visited /\ neighbor \notin avoidList
       THEN BFSVisit([queue   |-> Append(bfs.queue, neighbor),
                      visited |-> MapSet(bfs.visited, neighbor, currentSystem),
                      head    |-> bfs.head],
                     neighbors, i + 1, currentSystem, avoidList)
       ELSE BFSVisit(bfs, neighbors, i + 1, currentSystem, avoidList)

\* lines 257-266: follow visited back to -1, then reverse
RECURSIVE BFSPath(_, _, _)
BFSPath(visited, temp, path) ==
  IF temp = -1 THEN path ELSE BFSPath(visited, visited[temp], <<temp>> \o path)

\* lines 253-274; head counts from 1
RECURSIVE BFSLoop(_, _, _, _)
BFSLoop(graph, bfs, endID, avoidList) ==
  IF bfs.head > Len(bfs.queue) THEN <<>>
  ELSE LET currentSystem == bfs.queue[bfs.head]
           next == [bfs EXCEPT !.head = @ + 1]
       IN  IF currentSystem = endID
           THEN BFSPath(bfs.visited, currentSystem, <<>>)
           ELSE BFSLoop(graph,
                        BFSVisit(next, Nbrs(graph, currentSystem), 1, currentSystem, avoidList),
                        endID, avoidList)

FindShortestPath(graph, startID, endID, avoidList) ==
  IF startID \in avoidList \/ endID \in avoidList THEN <<>>
  ELSE BFSLoop(graph,
               [queue |-> <<startID>>, visited |-> [id \in {startID} |-> -1], head |-> 1],
               endID, avoidList)

\* ------------------------------------------------------------------------
\* State
\* ------------------------------------------------------------------------
VARIABLES
  build,                  \* which Fetcher is compiled in: "split" (updateTripwireData
                          \* plus TheraUpdater) or "combined" (fetchAndSaveData)
  proc,                   \* "start", "running", "exited" (log.Fatalf or panic)
  heap,                   \* map objects: reference -> graph
  service_universeGraph,  \* Service.universeGraph (a reference, 0 before NewService)
  thera_universeGraph,    \* TheraUpdater.universeGraph
  fetcher_universeGraph,  \* Fetcher.universeGraph
  baseStargateGraph,      \* Fetcher.baseStargateGraph (a reference, 0 before New)
  graphMutex,             \* sync.RWMutex: [writer, readers]
  tripwireFile,           \* tripwire_data.json
  fpc, tripwireData, tripwireErr, allScoutRoutes, scoutErr, newGraph,   \* Fetcher cycle
  tpc, theraConnections, tIdx,                                          \* TheraUpdater cycle
  qpc, q, pathIDs,        \* route query: position, search state, result
  log,                    \* per goroutine, the lines its current cycle has logged
  qSnapshot, qReads,      \* history: graph at RLock, (node, neighbours) reads since
  systemIDCache,          \* ESIClient.systemIDCache: lower-case name -> id
  nameCache,              \* ESIClient.nameCache: id -> name
  cacheMutex,             \* ESIClient.cacheMutex: [writer, readers]
  esi,                    \* per calling goroutine, its call of an ESIClient method
  killsFile, killsTmp,    \* system_kills.json and system_kills.json.tmp
  kpc, killData,          \* KillDataUpdater cycle
  loaded,                 \* what Service.loadKills / loadTripwire read last
  mpc,                    \* main from line 91 on: "add", "go", "wait", "done"
  servicesWg,             \* counter of main's sync.WaitGroup
  quit,                   \* the quit channel is closed
  svc,                    \* per service goroutine: "notstarted", "running", "returned"
  ipc, iPath,             \* fetchIntelForPath: position, path argument
  intelMap, intelMu, intelWg,   \* its map, sync.Mutex (holder) and WaitGroup counter
  workers                 \* its goroutines: index of path -> [pc, sysID, intel]

fetcherVars == <<fpc, tripwireData, tripwireErr, allScoutRoutes, scoutErr, newGraph>>
theraVars == <<tpc, theraConnections, tIdx>>
queryVars == <<qpc, q, pathIDs, qSnapshot, qReads>>
esiVars == <<systemInfoCache, systemIDCache, nameCache, cacheMutex, esi>>
killVars == <<killsFile, killsTmp, kpc, killData>>
shutVars == <<mpc, servicesWg, quit, svc>>
intelVars == <<ipc, iPath, intelMap, intelMu, intelWg, workers>>
graphVars == <<heap, service_universeGraph, thera_universeGraph, fetcher_universeGraph, baseStargateGraph>>
vars == <<build, proc, heap, service_universeGraph, thera_universeGraph,
          fetcher_universeGraph, baseStargateGraph, graphMutex, tripwireFile,
          fpc, tripwireData, tripwireErr, allScoutRoutes, scoutErr, newGraph,
          tpc, theraConnections, tIdx, qpc, q, pathIDs, log,
          qSnapshot, qReads, systemInfoCache, systemIDCache, nameCache, cacheMutex,
          esi, killsFile, killsTmp, kpc, killData, loaded,
          mpc, servicesWg, quit, svc, ipc, iPath, intelMap, intelMu, intelWg, workers>>

NoQuery == [pathfinder |-> "", startID |-> 0, endID |-> 0, preference |-> "",
            avoidList |-> {}, graph |-> 0, st |-> FPPStart(EmptyGraph, 0)]

\* the string "Unknown" of getName
Unknown == <<"U", "n", "k", "n", "o", "w", "n">>

\* a goroutine that is not inside an ESIClient method
NoCall == [op |-> "", pc |-> "idle", name |-> <<>>, id |-> 0,
           respID |-> 0, respName |-> <<>>,
           retID |-> 0, retName |-> <<>>, retSys |-> Nil, err |-> FALSE,
           requests |-> 0]

\* the goroutines that call the ESIClient (Discord interaction handlers)
ESICallers == {"h1", "h2"}

\* the goroutines main starts from line 92 on
Services == <<"fetcher", "bot", "thera", "kills">>

\* the ESIClient after NewESIClient and LoadSystemCache, the kill updater
\* before its first cycle (Nil: no such file, nothing read yet), main before
\* it starts the services, no fetchIntelForPath under way
InitClients ==
  /\ mpc = "add" /\ servicesWg = 0 /\ quit = FALSE
  /\ svc = [s \in SeqToSet(Services) |-> "notstarted"]
  /\ ipc = "idle" /\ iPath = <<>>
  /\ intelMap = [id \in {} |-> Nil] /\ intelMu = 0 /\ intelWg = 0
  /\ workers = <<>>
  /\ systemIDCache = IDCacheOf(systemInfoCache)
  /\ nameCache = [id \in {} |-> <<>>]
  /\ cacheMutex = [writer |-> "none", readers |-> {}]
  /\ esi = [c \in ESICallers |-> NoCall]
  /\ killsFile = Nil /\ killsTmp = Nil
  /\ kpc = "idle" /\ killData = <<>>
  /\ loaded = [kills |-> Nil, tripwire |-> Nil]

Init ==
  /\ build \in {"split", "combined"}
  /\ proc = "start"
  /\ heap = [r \in {} |-> EmptyGraph]
  /\ service_universeGraph = 0 /\ thera_universeGraph = 0 /\ fetcher_universeGraph = 0
  /\ baseStargateGraph = 0
  /\ graphMutex = [writer |-> "none", readers |-> 0]
  /\ tripwireFile \in StartupFiles
  /\ fpc = "login" /\ tripwireData = Nil /\ tripwireErr = FALSE
  /\ allScoutRoutes = <<>> /\ scoutErr = FALSE /\ newGraph = EmptyGraph
  /\ tpc = "idle" /\ theraConnections = <<>> /\ tIdx = 0
  /\ qpc = "idle" /\ q = NoQuery /\ pathIDs = <<>>
  /\ log = [g \in {"main", "fetcher", "thera"} |-> <<>>]
  /\ qSnapshot = EmptyGraph /\ qReads = {}
  /\ systemInfoCache = SystemCacheFile
  /\ InitClients

WormholeOrders(data) == IF data = Nil THEN {<<>>} ELSE Orders(DOMAIN data.Wormholes)

\* ------------------------------------------------------------------------
\* main.go: build the initial graph and create the services
\* ------------------------------------------------------------------------
\* variant of New that keeps the caller's map as its base
NewNoCopy(h, graph) == [heap |-> h, base |-> graph]

\* tw_fetcher.go New, lines 127-138: a new map object (reference 3) with a
\* copy of every slice of the map the caller passes
New(h, graph) ==
  [heap |-> [r \in (DOMAIN h) \cup {3} |-> IF r = 3 THEN h[graph] ELSE h[r]],
   base |-> 3]

Main(theraErr, conns, order) ==
  /\ proc = "start"
  /\ LET stargates == BuildGraphFromCSV(JumpsCSV)
         withTw    == AddTripwireWormholesToGraph(stargates, tripwireFile, order)
         withThera == IF theraErr THEN withTw ELSE AddTheraConnections(withTw, conns, 1)
         universeGraph == DeduplicateNeighbors(withThera)
         fetcherService == New([r \in {1} |-> universeGraph], 1)
     IN  /\ heap' = fetcherService.heap
         /\ baseStargateGraph' = fetcherService.base
  /\ service_universeGraph' = 1
  /\ thera_universeGraph' = 1
  /\ fetcher_universeGraph' = 1
  /\ proc' = "running"
  /\ log' = [log EXCEPT !["main"] =
               IF theraErr THEN <<"Could not fetch initial Thera connections", "Graph built">>
               ELSE <<"Added initial Thera connections", "Graph built">>]
  /\ UNCHANGED <<build, shutVars, intelVars, esiVars, killVars, loaded, graphMutex, tripwireFile, fetcherVars, theraVars, queryVars>>

\* main.go lines 36-39: BuildGraphFromCSV returns an error (the CSV cannot be
\* opened or read) and log.Fatalf ends the process
StaticGraphFatal == "FATAL: Could not build stargate graph"

MainFatal ==
  /\ proc = "start"
  /\ proc' = "exited"
  /\ log' = [log EXCEPT !["main"] = <<StaticGraphFatal>>]
  /\ UNCHANGED <<build, shutVars, intelVars, esiVars, killVars, loaded, graphVars, graphMutex, tripwireFile, fetcherVars,
                 theraVars, queryVars>>

\* log.Println / log.Printf of goroutine g: the first lines of a cycle, and
\* further lines of the same cycle
LogStart(g, lines) == [log EXCEPT ![g] = lines]
LogMore(g, lines) == [log EXCEPT ![g] = @ \o lines]

\* ------------------------------------------------------------------------
\* sync.RWMutex
\* ------------------------------------------------------------------------
CanLock == graphMutex.writer = "none" /\ graphMutex.readers = 0
CanRLock == graphMutex.writer = "none"

\* ------------------------------------------------------------------------
\* Fetcher (tw_fetcher.go)
\* ------------------------------------------------------------------------
\* Start lines 147-149: the initial login; log.Fatalf ends the process
FetcherLogin(ok) ==
  /\ proc = "running" /\ fpc = "login"
  /\ IF ok
     THEN /\ fpc' = "idle" /\ proc' = proc
          /\ log' = LogStart("fetcher", <<"[FETCHER] Successfully logged into Tripwire">>)
     ELSE /\ fpc' = fpc /\ proc' = "exited"
          /\ log' = LogStart("fetcher", <<"[FETCHER] FATAL: Initial Tripwire login failed">>)
  /\ UNCHANGED <<build, shutVars, intelVars, esiVars, killVars, loaded, graphVars, graphMutex, tripwireFile, tripwireData, tripwireErr,
                 allScoutRoutes, scoutErr, newGraph, theraVars, queryVars>>

\* variant of FetcherFetch without the early return on a failed fetch
FetcherFetchNoReturn(err, data) ==
  /\ proc = "running" /\ build = "split" /\ fpc = "idle"
  /\ tripwireErr' = err
  /\ tripwireData' = IF err THEN Nil ELSE data
  /\ fpc' = "merge"
  /\ log' = LogStart("fetcher", IF err THEN <<"[FETCHER] WARNING: Tripwire data fetch failed">>
                                ELSE <<"[FETCHER] Tripwire data fetched successfully">>)
  /\ UNCHANGED <<build, shutVars, intelVars, esiVars, killVars, loaded, proc, graphVars, graphMutex, tripwireFile, allScoutRoutes,
                 scoutErr, newGraph, theraVars, queryVars>>

\* updateTripwireData lines 170-177: the fetch and its error return
FetcherFetch(err, data) ==
  /\ proc = "running" /\ build = "split" /\ fpc = "idle"
  /\ tripwireErr' = err
  /\ IF err
     THEN /\ tripwireData' = Nil
          /\ fpc' = "idle"
          /\ log' = LogStart("fetcher", <<"[FETCHER] WARNING: Tripwire data fetch failed">>)
     ELSE /\ tripwireData' = data
          /\ fpc' = "merge"
          /\ log' = LogStart("fetcher", <<"[FETCHER] Tripwire data fetched successfully">>)
  /\ UNCHANGED <<build, shutVars, intelVars, esiVars, killVars, loaded, proc, graphVars, graphMutex, tripwireFile, allScoutRoutes,
                 scoutErr, newGraph, theraVars, queryVars>>

\* updateTripwireData lines 179-201: the new graph, private to the cycle
FetcherMerge(order) ==
  /\ proc = "running" /\ build = "split" /\ fpc = "merge"
  /\ newGraph' = MergeTripwire(heap[baseStargateGraph], tripwireData, order)
  /\ fpc' = "lock"
  /\ log' = log
  /\ UNCHANGED <<build, shutVars, intelVars, esiVars, killVars, loaded, proc, graphVars, graphMutex, tripwireFile, tripwireData,
                 tripwireErr, allScoutRoutes, scoutErr, theraVars, queryVars>>

\* src/tw_fetcher.go fetchAndSaveData lines 189-219: both fetches, wg.Wait,
\* the error checks
CombinedFetch(twErr, data, scErr, routes) ==
  /\ proc = "running" /\ build = "combined" /\ fpc = "idle"
  /\ tripwireErr' = twErr
  /\ tripwireData' = IF twErr THEN Nil ELSE data
  /\ scoutErr' = scErr
  /\ allScoutRoutes' = IF scErr THEN <<>> ELSE routes
  /\ IF twErr
     THEN /\ fpc' = "idle"
          /\ log' = LogStart("fetcher", <<"[FETCHER] WARNING: Tripwire data fetch failed">>)
     ELSE /\ fpc' = "merge"
          /\ log' = LogStart("fetcher", IF scErr
                    THEN <<"[FETCHER] WARNING: Eve-Scout data fetch failed", "[FETCHER] All data fetched successfully">>
                    ELSE <<"[FETCHER] All data fetched successfully">>)
  /\ UNCHANGED <<build, shutVars, intelVars, esiVars, killVars, loaded, proc, graphVars, graphMutex, tripwireFile, newGraph,
                 theraVars, queryVars>>

\* fetchAndSaveData lines 224-260; a nil-pointer panic ends the process
CombinedMerge(order) ==
  /\ proc = "running" /\ build = "combined" /\ fpc = "merge"
  /\ LET r == MergeCombined(heap[baseStargateGraph], tripwireData, order, allScoutRoutes) IN
     IF r.panic
     THEN /\ proc' = "exited"
          /\ log' = LogMore("fetcher", <<"panic: runtime error: invalid memory address or nil pointer dereference">>)
          /\ UNCHANGED <<newGraph, fpc>>
     ELSE /\ newGraph' = r.graph
          /\ fpc' = "lock"
          /\ proc' = proc
          /\ log' = LogMore("fetcher", <<"[FETCHER] Processing and validating Tripwire data">>)
  /\ UNCHANGED <<build, shutVars, intelVars, esiVars, killVars, loaded, graphVars, graphMutex, tripwireFile, tripwireData,
                 tripwireErr, allScoutRoutes, scoutErr, theraVars, queryVars>>

\* s.graphMutex.Lock()
FetcherLock ==
  /\ proc = "running" /\ fpc = "lock"
  /\ CanLock
  /\ graphMutex' = [graphMutex EXCEPT !.writer = "fetcher"]
  /\ fpc' = "swap"
  /\ log' = log
  /\ UNCHANGED <<build, shutVars, intelVars, esiVars, killVars, loaded, proc, graphVars, tripwireFile, tripwireData, tripwireErr,
                 allScoutRoutes, scoutErr, newGraph, theraVars, queryVars>>

\* s.universeGraph = newGraph: the Fetcher's own field is assigned.  The map
\* it referred to before is garbage once it is not the shared map 1, so the
\* new map takes reference 2.
FetcherSwap ==
  /\ proc = "running" /\ fpc = "swap"
  /\ heap' = [r \in (DOMAIN heap) \cup {2} |-> IF r = 2 THEN newGraph ELSE heap[r]]
  /\ fetcher_universeGraph' = 2
  /\ fpc' = "unlock"
  /\ log' = log
  /\ UNCHANGED <<build, shutVars, intelVars, esiVars, killVars, loaded, proc, service_universeGraph, thera_universeGraph,
                 baseStargateGraph, graphMutex, tripwireFile, tripwireData,
                 tripwireErr, allScoutRoutes, scoutErr, newGraph, theraVars, queryVars>>

\* s.graphMutex.Unlock()
FetcherUnlock ==
  /\ proc = "running" /\ fpc = "unlock"
  /\ graphMutex' = [graphMutex EXCEPT !.writer = "none"]
  /\ fpc' = "save"
  /\ log' = LogMore("fetcher", <<"[FETCHER] Merged Tripwire data into the graph">>)
  /\ UNCHANGED <<build, shutVars, intelVars, esiVars, killVars, loaded, proc, graphVars, tripwireFile, tripwireData, tripwireErr,
                 allScoutRoutes, scoutErr, newGraph, theraVars, queryVars>>

\* variant of FetcherSave that ends the process when the file cannot be
\* written
FetcherSaveFatal(outcome) ==
  /\ proc = "running" /\ fpc = "save"
  /\ fpc' = "idle"
  /\ CASE outcome = "ok" ->
            /\ tripwireFile' = tripwireData
            /\ log' = log
            /\ proc' = proc
       [] outcome = "marshal" ->
            /\ tripwireFile' = tripwireFile
            /\ log' = LogMore("fetcher", <<"[FETCHER] ERROR: Failed to marshal data">>)
            /\ proc' = "exited"
       [] outcome = "write" ->
            /\ tripwireFile' = tripwireFile
            /\ log' = LogMore("fetcher", <<"[FETCHER] ERROR: Failed to write data to file">>)
            /\ proc' = "exited"
  /\ tripwireData' = Nil
  /\ allScoutRoutes' = <<>>
  /\ newGraph' = EmptyGraph
  /\ UNCHANGED <<build, shutVars, intelVars, esiVars, killVars, loaded, graphVars, graphMutex, tripwireErr, scoutErr,
                 theraVars, queryVars>>

\* json.MarshalIndent, os.WriteFile("tripwire_data.json"), and the return of
\* the cycle (its locals are gone)
FetcherSave(outcome) ==
  /\ proc = "running" /\ fpc = "save"
  /\ fpc' = "idle"
  /\ CASE outcome = "ok" ->
            /\ tripwireFile' = tripwireData
            /\ log' = log
       [] outcome = "marshal" ->
            /\ tripwireFile' = tripwireFile
            /\ log' = LogMore("fetcher", <<"[FETCHER] ERROR: Failed to marshal data">>)
       [] outcome = "write" ->
            /\ tripwireFile' = tripwireFile
            /\ log' = LogMore("fetcher", <<"[FETCHER] ERROR: Failed to write data to file">>)
  /\ tripwireData' = Nil
  /\ allScoutRoutes' = <<>>
  /\ newGraph' = EmptyGraph
  /\ UNCHANGED <<build, shutVars, intelVars, esiVars, killVars, loaded, proc, graphVars, graphMutex, tripwireErr, scoutErr,
                 theraVars, queryVars>>

\* ------------------------------------------------------------------------
\* TheraUpdater (eve_scout.go)
\* ------------------------------------------------------------------------
\* updateGraph lines 171-176
TheraFetch(err, conns) ==
  /\ proc = "running" /\ build = "split" /\ tpc = "idle"
  /\ IF err
     THEN /\ theraConnections' = <<>>
          /\ tpc' = "idle"
          /\ log' = LogStart("thera", <<"[THERA UPDATER] ERROR: Failed to fetch Thera data">>)
     ELSE /\ theraConnections' = conns
          /\ tpc' = "lock"
          /\ log' = LogStart("thera", <<>>)
  /\ tIdx' = 0
  /\ UNCHANGED <<build, shutVars, intelVars, esiVars, killVars, loaded, proc, graphVars, graphMutex, tripwireFile, fetcherVars,
                 queryVars>>

\* variant of TheraLock that does not wait for the readers to leave
TheraLockNoWait ==
  /\ proc = "running" /\ tpc = "lock"
  /\ graphMutex.writer = "none"
  /\ graphMutex' = [graphMutex EXCEPT !.writer = "thera"]
  /\ tpc' = "insert"
  /\ tIdx' = 1
  /\ log' = log
  /\ UNCHANGED <<build, shutVars, intelVars, esiVars, killVars, loaded, proc, graphVars, tripwireFile, fetcherVars, theraConnections,
                 queryVars>>

\* line 178: u.graphMutex.Lock()
TheraLock ==
  /\ proc = "running" /\ tpc = "lock"
  /\ CanLock
  /\ graphMutex' = [graphMutex EXCEPT !.writer = "thera"]
  /\ tpc' = "insert"
  /\ tIdx' = 1
  /\ log' = log
  /\ UNCHANGED <<build, shutVars, intelVars, esiVars, killVars, loaded, proc, graphVars, tripwireFile, fetcherVars, theraConnections,
                 queryVars>>

\* lines 183-190: one iteration, appending to the map the field refers to
TheraInsert ==
  /\ proc = "running" /\ tpc = "insert"
  /\ IF tIdx <= Len(theraConnections)
     THEN /\ heap' = [heap EXCEPT ![thera_universeGraph] =
                        AddTheraConnection(@, theraConnections[tIdx])]
          /\ tIdx' = tIdx + 1
          /\ tpc' = tpc
     ELSE /\ heap' = heap
          /\ tIdx' = tIdx
          /\ tpc' = "dedup"
  /\ log' = log
  /\ UNCHANGED <<build, shutVars, intelVars, esiVars, killVars, loaded, proc, service_universeGraph, thera_universeGraph,
                 fetcher_universeGraph, baseStargateGraph, graphMutex, tripwireFile,
                 fetcherVars, theraConnections, queryVars>>

\* line 192: DeduplicateNeighbors(u.universeGraph)
TheraDedup ==
  /\ proc = "running" /\ tpc = "dedup"
  /\ heap' = [heap EXCEPT ![thera_universeGraph] = DeduplicateNeighbors(@)]
  /\ tpc' = "unlock"
  /\ log' = LogMore("thera", <<"[THERA UPDATER] Merged Thera connections into the graph">>)
  /\ UNCHANGED <<build, shutVars, intelVars, esiVars, killVars, loaded, proc, service_universeGraph, thera_universeGraph,
                 fetcher_universeGraph, baseStargateGraph, graphMutex, tripwireFile,
                 fetcherVars, theraConnections, tIdx, queryVars>>

\* the deferred u.graphMutex.Unlock() and the return of the cycle
TheraUnlock ==
  /\ proc = "running" /\ tpc = "unlock"
  /\ graphMutex' = [graphMutex EXCEPT !.writer = "none"]
  /\ tpc' = "idle"
  /\ theraConnections' = <<>>
  /\ tIdx' = 0
  /\ log' = log
  /\ UNCHANGED <<build, shutVars, intelVars, esiVars, killVars, loaded, proc, graphVars, tripwireFile, fetcherVars, queryVars>>

\* ------------------------------------------------------------------------
\* Service.handleRouteCommand (bot_service.go)
\* ------------------------------------------------------------------------
\* (start, end) ids the names of a command resolve to, and the preferences
QueryPairs == {<<1, 4>>, <<4, 1>>}
QueryPreferences == {"shortest", "safer"}

\* lines 163-192: options, name resolution, avoid list
QueryBegin(startID, endID, preference) ==
  /\ proc = "running" /\ qpc = "idle"
  /\ q' = [NoQuery EXCEPT !.pathfinder = "FindPreferredPath",
                          !.startID = startID, !.endID = endID,
                          !.preference = preference, !.avoidList = {Zarzakh}]
  /\ qpc' = "rlock"
  /\ pathIDs' = <<>>
  /\ log' = log
  /\ UNCHANGED <<build, shutVars, intelVars, esiVars, killVars, loaded, proc, graphVars, graphMutex, tripwireFile, fetcherVars,
                 theraVars, qSnapshot, qReads>>

\* line 195 s.graphMutex.RLock(), and the call of FindPreferredPath with the
\* map Service.universeGraph refers to (lines 430-436)
QueryRLock ==
  /\ proc = "running" /\ qpc = "rlock"
  /\ CanRLock
  /\ graphMutex' = [graphMutex EXCEPT !.readers = @ + 1]
  /\ q' = [q EXCEPT !.graph = service_universeGraph,
                    !.st = FPPStart(heap[service_universeGraph], q.startID)]
  /\ qpc' = "search"
  /\ qSnapshot' = heap[service_universeGraph]
  /\ qReads' = {}
  /\ log' = log
  /\ UNCHANGED <<build, shutVars, intelVars, esiVars, killVars, loaded, proc, graphVars, tripwireFile, fetcherVars, theraVars,
                 pathIDs>>

\* one iteration of the loop of FindPreferredPath (lines 438-496), or its
\* return
QueryStep ==
  /\ proc = "running" /\ qpc = "search"
  /\ LET st == q.st
         currentIndex == ScanPQ(st.pq, st.costs, 1, ScanStart, 0)
     IN  IF Len(st.pq) = 0 \/ currentIndex = 0
         THEN /\ pathIDs' = <<>>
              /\ qpc' = "runlock"
              /\ UNCHANGED <<q, qReads>>
         ELSE LET currentID == st.pq[currentIndex]
                  popped == [st EXCEPT !.pq = RemoveAt(st.pq, currentIndex)]
              IN  IF currentID = q.endID
                  THEN /\ pathIDs' = Reconstruct(st.parents, q.startID, q.endID, <<>>)
                       /\ qpc' = "runlock"
                       /\ q' = [q EXCEPT !.st = popped]
                       /\ UNCHANGED qReads
                  ELSE LET neighbors == Nbrs(heap[q.graph], currentID) IN
                       /\ q' = [q EXCEPT !.st = Relax(popped, neighbors, 1, currentID,
                                                      q.preference, q.avoidList)]
                       /\ qReads' = qReads \cup {<<currentID, neighbors>>}
                       /\ UNCHANGED <<pathIDs, qpc>>
  /\ log' = log
  /\ UNCHANGED <<build, shutVars, intelVars, esiVars, killVars, loaded, proc, graphVars, graphMutex, tripwireFile, fetcherVars,
                 theraVars, qSnapshot>>

\* line 197 s.graphMutex.RUnlock()
QueryRUnlock ==
  /\ proc = "running" /\ qpc = "runlock"
  /\ graphMutex' = [graphMutex EXCEPT !.readers = @ - 1]
  /\ qpc' = "respond"
  /\ log' = log
  /\ UNCHANGED <<build, shutVars, intelVars, esiVars, killVars, loaded, proc, graphVars, tripwireFile, fetcherVars, theraVars,
                 q, pathIDs, qSnapshot, qReads>>

\* lines 199-270: the answer is sent, the handler returns
QueryRespond ==
  /\ proc = "running" /\ qpc = "respond"
  /\ qpc' = "idle"
  /\ q' = NoQuery
  /\ qSnapshot' = EmptyGraph
  /\ qReads' = {}
  /\ log' = log
  /\ UNCHANGED <<build, shutVars, intelVars, esiVars, killVars, loaded, proc, graphVars, graphMutex, tripwireFile, fetcherVars,
                 theraVars, pathIDs>>

\* ------------------------------------------------------------------------
\* ESIClient (tw_fetcher.go lines 220-446)
\* ------------------------------------------------------------------------
\* what ESI knows: /universe/ids/ resolves a name whatever its case
ESIDirectory ==
  [key \in {ToLower(SystemName(id)) : id \in {1, 2, 3, 4, theraSystemID}} |->
     CHOOSE id \in {1, 2, 3, 4, theraSystemID} : ToLower(SystemName(id)) = key]

\* names typed into a command, ids looked up
NameInputs == {<<"J", "I", "T", "A">>, <<"T", "h", "e", "r", "a">>, <<"T", "H", "E", "R", "A">>, <<"N", "o", "w", "h", "e", "r", "e">>}
IdInputs == {0, 1, theraSystemID}

\* what makeRequest can come back with for a call
ESIAnswers(call) ==
  {"error"} \cup
  (IF call.op = "GetSystemID"
   THEN (IF ToLower(call.name) \in DOMAIN ESIDirectory THEN {"found"} ELSE {"empty"})
   ELSE {"found", "empty"})

\* GetSystemDetails lines 422-431: (sys, err)
GetSystemDetails(id) ==
  IF id \in DOMAIN systemInfoCache
  THEN [sys |-> systemInfoCache[id], err |-> FALSE]
  ELSE [sys |-> Nil, err |-> TRUE]

\* the ids of the cache entries GetSystemID lines 322-331 can return for
\* name: the Name->ID cache first, then the scan of the details
CachedIDs(name) ==
  IF ToLower(name) \in DOMAIN systemIDCache
  THEN {systemIDCache[ToLower(name)]}
  ELSE {id \in DOMAIN systemInfoCache : EqualFold(systemInfoCache[id].Name, name)}

\* a goroutine enters GetSystemID(name), getName(id) or GetSystemDetails(id);
\* getName returns "Unknown" for id 0 at once (lines 357-359)
ESICall(c, op, name, id) ==
  /\ proc = "running" /\ esi[c].pc = "idle"
  /\ esi' = [esi EXCEPT ![c] =
               IF op = "getName" /\ id = 0
               THEN [NoCall EXCEPT !.op = op, !.id = id, !.pc = "done", !.retName = Unknown]
               ELSE [NoCall EXCEPT !.op = op, !.name = name, !.id = id, !.pc = "rlock"]]
  /\ UNCHANGED <<build, shutVars, intelVars, proc, systemInfoCache, systemIDCache, nameCache, cacheMutex,
                 killVars, loaded, graphVars, graphMutex, tripwireFile, fetcherVars,
                 theraVars, queryVars, log>>

\* c.cacheMutex.RLock()
ESIRLock(c) ==
  /\ proc = "running" /\ esi[c].pc = "rlock"
  /\ cacheMutex.writer = "none"
  /\ cacheMutex' = [cacheMutex EXCEPT !.readers = @ \cup {c}]
  /\ esi' = [esi EXCEPT ![c].pc = "lookup"]
  /\ UNCHANGED <<build, shutVars, intelVars, proc, systemInfoCache, systemIDCache, nameCache,
                 killVars, loaded, graphVars, graphMutex, tripwireFile, fetcherVars,
                 theraVars, queryVars, log>>

\* the cache lookup of a call: GetSystemID lines 322-332, getName lines
\* 360-365, GetSystemDetails lines 424-430; the call as it goes on
LookupResults(call) ==
  CASE call.op = "GetSystemID" ->
         IF CachedIDs(call.name) # {}
         THEN {[call EXCEPT !.pc = "done", !.retID = id] : id \in CachedIDs(call.name)}
         ELSE {[call EXCEPT !.pc = "request"]}
    [] call.op = "getName" ->
         IF call.id \in DOMAIN nameCache
         THEN {[call EXCEPT !.pc = "done", !.retName = nameCache[call.id]]}
         ELSE {[call EXCEPT !.pc = "request"]}
    [] call.op = "GetSystemDetails" ->
         {[call EXCEPT !.pc = "done",
                       !.retSys = GetSystemDetails(call.id).sys,
                       !.err = GetSystemDetails(call.id).err]}

\* variant of ESILookup that keeps the read lock on a miss
ESILookupKeepLock(c) ==
  /\ proc = "running" /\ esi[c].pc = "lookup"
  /\ \E r \in LookupResults(esi[c]) :
       /\ esi' = [esi EXCEPT ![c] = r]
       /\ cacheMutex' = IF r.pc = "request" THEN cacheMutex
                        ELSE [cacheMutex EXCEPT !.readers = @ \ {c}]
  /\ UNCHANGED <<build, shutVars, intelVars, proc, systemInfoCache, systemIDCache, nameCache,
                 killVars, loaded, graphVars, graphMutex, tripwireFile, fetcherVars,
                 theraVars, queryVars, log>>

\* the lookup under the read lock and the RUnlock that follows it on every
\* path
ESILookup(c) ==
  /\ proc = "running" /\ esi[c].pc = "lookup"
  /\ \E r \in LookupResults(esi[c]) : esi' = [esi EXCEPT ![c] = r]
  /\ cacheMutex' = [cacheMutex EXCEPT !.readers = @ \ {c}]
  /\ UNCHANGED <<build, shutVars, intelVars, proc, systemInfoCache, systemIDCache, nameCache,
                 killVars, loaded, graphVars, graphMutex, tripwireFile, fetcherVars,
                 theraVars, queryVars, log>>

\* variant of ESIRequest in which getName remembers "Unknown" for an id
\* whose request failed
ESIRequestCachingFailure(c, answer) ==
  /\ proc = "running" /\ esi[c].pc = "request"
  /\ answer \in ESIAnswers(esi[c])
  /\ LET call == [esi[c] EXCEPT !.requests = @ + 1] IN
     esi' = [esi EXCEPT ![c] =
       IF esi[c].op = "GetSystemID"
       THEN IF answer = "found"
            THEN [call EXCEPT !.pc = "lock", !.respID = ESIDirectory[ToLower(call.name)]]
            ELSE [call EXCEPT !.pc = "done", !.err = TRUE]
       ELSE IF answer = "found"
            THEN [call EXCEPT !.pc = "lock", !.respName = SystemName(call.id)]
            ELSE [call EXCEPT !.pc = "done", !.retName = Unknown]]
  /\ nameCache' = IF esi[c].op = "getName" /\ answer # "found"
                  THEN MapSet(nameCache, esi[c].id, Unknown)
                  ELSE nameCache
  /\ UNCHANGED <<build, shutVars, intelVars, proc, systemInfoCache, systemIDCache, cacheMutex,
                 killVars, loaded, graphVars, graphMutex, tripwireFile, fetcherVars,
                 theraVars, queryVars, log>>

\* makeRequest returns: GetSystemID lines 334-346, getName lines 368-379
ESIRequest(c, answer) ==
  /\ proc = "running" /\ esi[c].pc = "request"
  /\ answer \in ESIAnswers(esi[c])
  /\ LET call == [esi[c] EXCEPT !.requests = @ + 1] IN
     esi' = [esi EXCEPT ![c] =
       IF esi[c].op = "GetSystemID"
       THEN IF answer = "found"
            THEN [call EXCEPT !.pc = "lock", !.respID = ESIDirectory[ToLower(call.name)]]
            ELSE [call EXCEPT !.pc = "done", !.err = TRUE]
       ELSE IF answer = "found"
            THEN [call EXCEPT !.pc = "lock", !.respName = SystemName(call.id)]
            ELSE [call EXCEPT !.pc = "done", !.retName = Unknown]]
  /\ UNCHANGED <<build, shutVars, intelVars, proc, systemInfoCache, systemIDCache, nameCache, cacheMutex,
                 killVars, loaded, graphVars, graphMutex, tripwireFile, fetcherVars,
                 theraVars, queryVars, log>>

\* c.cacheMutex.Lock()
ESILock(c) ==
  /\ proc = "running" /\ esi[c].pc = "lock"
  /\ cacheMutex.writer = "none" /\ cacheMutex.readers = {}
  /\ cacheMutex' = [cacheMutex EXCEPT !.writer = c]
  /\ esi' = [esi EXCEPT ![c].pc = "store"]
  /\ UNCHANGED <<build, shutVars, intelVars, proc, systemInfoCache, systemIDCache, nameCache,
                 killVars, loaded, graphVars, graphMutex, tripwireFile, fetcherVars,
                 theraVars, queryVars, log>>

\* variant of IDCacheKey that keeps the name as typed
IDCacheKeyAsTyped(name) == name

\* the key GetSystemID stores a resolved name under (line 349)
IDCacheKey(name) == ToLower(name)

\* the store, c.cacheMutex.Unlock() and the return: GetSystemID lines
\* 349-351, getName lines 382-384
ESIStore(c) ==
  /\ proc = "running" /\ esi[c].pc = "store"
  /\ IF esi[c].op = "GetSystemID"
     THEN /\ systemIDCache' = MapSet(systemIDCache, IDCacheKey(esi[c].name), esi[c].respID)
          /\ nameCache' = nameCache
          /\ esi' = [esi EXCEPT ![c].pc = "done", ![c].retID = esi[c].respID]
     ELSE /\ nameCache' = MapSet(nameCache, esi[c].id, esi[c].respName)
          /\ systemIDCache' = systemIDCache
          /\ esi' = [esi EXCEPT ![c].pc = "done", ![c].retName = esi[c].respName]
  /\ cacheMutex' = [cacheMutex EXCEPT !.writer = "none"]
  /\ UNCHANGED <<build, shutVars, intelVars, proc, systemInfoCache,
                 killVars, loaded, graphVars, graphMutex, tripwireFile, fetcherVars,
                 theraVars, queryVars, log>>

\* the caller has used the result
ESIReturn(c) ==
  /\ proc = "running" /\ esi[c].pc = "done"
  /\ esi' = [esi EXCEPT ![c] = NoCall]
  /\ UNCHANGED <<build, shutVars, intelVars, proc, systemInfoCache, systemIDCache, nameCache, cacheMutex,
                 killVars, loaded, graphVars, graphMutex, tripwireFile, fetcherVars,
                 theraVars, queryVars, log>>

\* ------------------------------------------------------------------------
\* Files on disk: tripwire_data.json, system_kills.json and its .tmp
\* ------------------------------------------------------------------------
\* a file os.WriteFile has opened (O_TRUNC) and not yet written to the end
Partial == [partial |-> TRUE]

\* a file holding the whole of content
FileOf(content) == [complete |-> TRUE, content |-> content]

\* []EsiSystemKills of GetSystemKills
KillAnswers == {<<>>, <<[SystemID |-> 1, ShipKills |-> 2]>>}

\* updateTripwireData lines 208-214: MarshalIndent, and os.WriteFile opening
\* tripwire_data.json, which truncates it
FetcherWriteOpen(outcome) ==
  /\ proc = "running" /\ fpc = "save"
  /\ CASE outcome = "ok" ->
            /\ tripwireFile' = Partial
            /\ fpc' = "write"
            /\ log' = log
            /\ UNCHANGED <<tripwireData, allScoutRoutes, newGraph>>
       [] outcome = "marshal" ->
            /\ tripwireFile' = tripwireFile
            /\ fpc' = "idle"
            /\ log' = LogMore("fetcher", <<"[FETCHER] ERROR: Failed to marshal data">>)
            /\ tripwireData' = Nil /\ allScoutRoutes' = <<>> /\ newGraph' = EmptyGraph
       [] outcome = "write" ->
            /\ tripwireFile' = tripwireFile
            /\ fpc' = "idle"
            /\ log' = LogMore("fetcher", <<"[FETCHER] ERROR: Failed to write data to file">>)
            /\ tripwireData' = Nil /\ allScoutRoutes' = <<>> /\ newGraph' = EmptyGraph
  /\ UNCHANGED <<build, shutVars, intelVars, esiVars, killVars, loaded, proc, graphVars, graphMutex, tripwireErr,
                 scoutErr, theraVars, queryVars>>

\* os.WriteFile writes the bytes and closes, or fails on the way (lines
\* 214-217); the cycle returns
FetcherWriteClose(outcome) ==
  /\ proc = "running" /\ fpc = "write"
  /\ fpc' = "idle"
  /\ CASE outcome = "ok" ->
            /\ tripwireFile' = tripwireData
            /\ log' = log
       [] outcome = "write" ->
            /\ tripwireFile' = tripwireFile
            /\ log' = LogMore("fetcher", <<"[FETCHER] ERROR: Failed to write data to file">>)
  /\ tripwireData' = Nil
  /\ allScoutRoutes' = <<>>
  /\ newGraph' = EmptyGraph
  /\ UNCHANGED <<build, shutVars, intelVars, esiVars, killVars, loaded, proc, graphVars, graphMutex, tripwireErr,
                 scoutErr, theraVars, queryVars>>

\* ------------------------------------------------------------------------
\* KillDataUpdater (system_kills.go)
\* ------------------------------------------------------------------------
\* fetchAndSave lines 47-58: GetSystemKills and its error return
KillFetch(err, kills) ==
  /\ proc = "running" /\ kpc = "idle"
  /\ IF err
     THEN /\ kpc' = "idle" /\ killData' = <<>>
     ELSE /\ kpc' = "tmp" /\ killData' = kills
  /\ UNCHANGED <<build, shutVars, intelVars, esiVars, killsFile, killsTmp, loaded, proc, graphVars, graphMutex,
                 tripwireFile, fetcherVars, theraVars, queryVars, log>>

\* lines 62-67: os.WriteFile opens system_kills.json.tmp, truncating it
KillWriteTmpOpen(ok) ==
  /\ proc = "running" /\ kpc = "tmp"
  /\ IF ok
     THEN /\ killsTmp' = Partial /\ kpc' = "tmpwrite" /\ killData' = killData
     ELSE /\ killsTmp' = killsTmp /\ kpc' = "idle" /\ killData' = <<>>
  /\ UNCHANGED <<build, shutVars, intelVars, esiVars, killsFile, loaded, proc, graphVars, graphMutex,
                 tripwireFile, fetcherVars, theraVars, queryVars, log>>

\* lines 63-67: the bytes are written to the temporary file, or the write
\* fails
KillWriteTmp(ok) ==
  /\ proc = "running" /\ kpc = "tmpwrite"
  /\ IF ok
     THEN /\ killsTmp' = FileOf(killData) /\ kpc' = "rename" /\ killData' = killData
     ELSE /\ killsTmp' = killsTmp /\ kpc' = "idle" /\ killData' = <<>>
  /\ UNCHANGED <<build, shutVars, intelVars, esiVars, killsFile, loaded, proc, graphVars, graphMutex,
                 tripwireFile, fetcherVars, theraVars, queryVars, log>>

\* lines 71-75: os.Rename puts the temporary file in the place of
\* system_kills.json in one step
KillRename(ok) ==
  /\ proc = "running" /\ kpc = "rename"
  /\ IF ok
     THEN killsFile' = killsTmp /\ killsTmp' = Nil
     ELSE UNCHANGED <<killsFile, killsTmp>>
  /\ kpc' = "idle" /\ killData' = <<>>
  /\ UNCHANGED <<build, shutVars, intelVars, esiVars, loaded, proc, graphVars, graphMutex,
                 tripwireFile, fetcherVars, theraVars, queryVars, log>>

\* bot_service.go line 207, loadKills lines 305-308: os.ReadFile
ServiceLoadKills ==
  /\ proc = "running"
  /\ loaded' = [loaded EXCEPT !.kills = killsFile]
  /\ UNCHANGED <<build, shutVars, intelVars, esiVars, killVars, proc, graphVars, graphMutex,
                 tripwireFile, fetcherVars, theraVars, queryVars, log>>

\* bot_service.go line 208, loadTripwire lines 324-327: os.ReadFile
ServiceLoadTripwire ==
  /\ proc = "running"
  /\ loaded' = [loaded EXCEPT !.tripwire = tripwireFile]
  /\ UNCHANGED <<build, shutVars, intelVars, esiVars, killVars, proc, graphVars, graphMutex,
                 tripwireFile, fetcherVars, theraVars, queryVars, log>>

\* ------------------------------------------------------------------------
\* Specification
\* ------------------------------------------------------------------------
\* the payloads the Tripwire feed answers with while queries run
SamplePayloads == {TripwireDataOf({"w14", "w1z"})}

Next ==
  \/ \E theraErr \in BOOLEAN, conns \in TheraAnswers, order \in WormholeOrders(tripwireFile) :
       Main(theraErr, conns, order)
  \/ MainFatal
  \/ \E ok \in BOOLEAN : FetcherLogin(ok)
  \/ \E err \in BOOLEAN, data \in SamplePayloads : FetcherFetch(err, data)
  \/ \E order \in WormholeOrders(tripwireData) : FetcherMerge(order)
  \/ \E twErr \in BOOLEAN, data \in SamplePayloads, scErr \in BOOLEAN, routes \in ScoutAnswers :
       CombinedFetch(twErr, data, scErr, routes)
  \/ \E order \in WormholeOrders(tripwireData) : CombinedMerge(order)
  \/ FetcherLock
  \/ FetcherSwap
  \/ FetcherUnlock
  \/ \E outcome \in {"ok", "marshal", "write"} : FetcherSave(outcome)
  \/ \E err \in BOOLEAN, conns \in TheraAnswers : TheraFetch(err, conns)
  \/ TheraLock
  \/ TheraInsert
  \/ TheraDedup
  \/ TheraUnlock
  \/ \E pair \in QueryPairs, preference \in QueryPreferences :
       QueryBegin(pair[1], pair[2], preference)
  \/ QueryRLock
  \/ QueryStep
  \/ QueryRUnlock
  \/ QueryRespond

Spec == Init /\ [][Next]_vars

\* The refresh cycles of the Fetcher alone, over every payload of the feed
NextRefresh ==
  \/ \E theraErr \in BOOLEAN, conns \in TheraAnswers, order \in WormholeOrders(tripwireFile) :
       Main(theraErr, conns, order)
  \/ \E ok \in BOOLEAN : FetcherLogin(ok)
  \/ \E err \in BOOLEAN, data \in TripwirePayloads : FetcherFetch(err, data)
  \/ \E order \in WormholeOrders(tripwireData) : FetcherMerge(order)
  \/ \E twErr \in BOOLEAN, data \in TripwirePayloads, scErr \in BOOLEAN, routes \in ScoutAnswers :
       CombinedFetch(twErr, data, scErr, routes)
  \/ \E order \in WormholeOrders(tripwireData) : CombinedMerge(order)
  \/ FetcherLock
  \/ FetcherSwap
  \/ FetcherUnlock
  \/ \E outcome \in {"ok", "marshal", "write"} : FetcherSave(outcome)

RefreshSpec == Init /\ [][NextRefresh]_vars

\* one refresh cycle up to the point where the working graph is built: the
\* merge applied to every startup graph, payload and iteration order
NextMerge ==
  \/ \E theraErr \in BOOLEAN, conns \in TheraAnswers, order \in WormholeOrders(tripwireFile) :
       Main(theraErr, conns, order)
  \/ \E ok \in BOOLEAN : FetcherLogin(ok)
  \/ \E err \in BOOLEAN, data \in TripwirePayloads : FetcherFetch(err, data)
  \/ \E order \in WormholeOrders(tripwireData) : FetcherMerge(order)
  \/ \E twErr \in BOOLEAN, data \in TripwirePayloads, scErr \in BOOLEAN, routes \in ScoutAnswers :
       CombinedFetch(twErr, data, scErr, routes)
  \/ \E order \in WormholeOrders(tripwireData) : CombinedMerge(order)

MergeSpec == Init /\ [][NextMerge]_vars

\* ------------------------------------------------------------------------
\* The pathfinders applied to a family of graphs and security assignments
\* ------------------------------------------------------------------------
PathNodes == {1, 2, 3, 4}
PathEdges == {{1, 2}, {2, 3}, {3, 4}, {1, 4}, {1, 3}, {2, 4}}

\* the graph with the connections E, both directions of each, every
\* adjacency list in ascending order
GraphOfEdges(E) ==
  [k \in {n \in PathNodes : \E e \in E : n \in e} |->
     LET nb == {n \in PathNodes : n # k /\ {k, n} \in E}
     IN  CHOOSE f \in Orders(nb) : \A i, j \in 1..Cardinality(nb) : i < j => f[i] < f[j]]

PathGraphs == {GraphOfEdges(E) : E \in SUBSET PathEdges}

\* contents of the system cache: every system low (0.3) or high (0.9)
SecurityAssignments ==
  {[id \in PathNodes |-> [Name |-> SystemName(id), SecurityStatus |-> sec[id]]] :
     sec \in [PathNodes -> {3, 9}]}

AvoidLists == {A \in SUBSET PathNodes : Cardinality(A) <= MaxAvoid}
Preferences == {"shortest", "safer", "unsafe"}

\* the services are built around one graph of the family and the system
\* cache is one of caches, nothing runs yet
PathInitOver(graphs, caches) ==
  /\ build = "split"
  /\ proc = "running"
  /\ \E g \in graphs :
       LET fetcherService == New([r \in {1} |-> g], 1)
       IN  heap = fetcherService.heap /\ baseStargateGraph = fetcherService.base
  /\ service_universeGraph = 1 /\ thera_universeGraph = 1 /\ fetcher_universeGraph = 1
  /\ graphMutex = [writer |-> "none", readers |-> 0]
  /\ tripwireFile = Nil
  /\ fpc = "login" /\ tripwireData = Nil /\ tripwireErr = FALSE
  /\ allScoutRoutes = <<>> /\ scoutErr = FALSE /\ newGraph = EmptyGraph
  /\ tpc = "idle" /\ theraConnections = <<>> /\ tIdx = 0
  /\ qpc = "idle" /\ q = NoQuery /\ pathIDs = <<>>
  /\ log = [g \in {"main", "fetcher", "thera"} |-> <<>>]
  /\ qSnapshot = EmptyGraph /\ qReads = {}
  /\ systemInfoCache \in caches
  /\ InitClients

PathInitWith(caches) == PathInitOver(PathGraphs, caches)

PathInit == PathInitWith(SecurityAssignments)

\* one call of a pathfinder on the graph Service.universeGraph refers to
PathCall(pathfinder, startID, endID, preference, avoidList) ==
  /\ proc = "running" /\ qpc = "idle"
  /\ q' = [NoQuery EXCEPT !.pathfinder = pathfinder,
                          !.startID = startID, !.endID = endID,
                          !.preference = preference, !.avoidList = avoidList,
                          !.graph = service_universeGraph]
  /\ pathIDs' = IF pathfinder = "FindPreferredPath"
                THEN FindPreferredPath(heap[service_universeGraph], startID, endID,
                                       preference, avoidList)
                ELSE FindShortestPath(heap[service_universeGraph], startID, endID, avoidList)
  /\ qpc' = "respond"
  /\ log' = log
  /\ UNCHANGED <<build, shutVars, intelVars, esiVars, killVars, loaded, proc, graphVars, graphMutex, tripwireFile, fetcherVars,
                 theraVars, qSnapshot, qReads>>

\* handleRouteCommand lines 191-197 with no refresher running: the avoid
\* list of the exclude option plus Zarzakh, then the search
RouteCommand(startID, endID, preference, exclude) ==
  PathCall("FindPreferredPath", startID, endID, preference, exclude \cup {Zarzakh})

RouteEndpoints == {1, 4, Zarzakh}

PathNext ==
  \/ \E startID \in PathNodes, endID \in PathNodes, preference \in Preferences,
        avoidList \in AvoidLists :
       PathCall("FindPreferredPath", startID, endID, preference, avoidList)
  \/ \E startID \in PathNodes, endID \in PathNodes, avoidList \in AvoidLists :
       PathCall("FindShortestPath", startID, endID, "shortest", avoidList)
  \/ \E startID \in RouteEndpoints, endID \in RouteEndpoints,
        preference \in {"shortest", "safer"}, exclude \in {{}, {1}} :
       RouteCommand(startID, endID, preference, exclude)

PathSpec == PathInit /\ [][PathNext]_vars

\* contents of the system cache in which one system of the family has no
\* entry
PartialAssignments ==
  UNION {{[id \in PathNodes \ {u} |-> [Name |-> SystemName(id), SecurityStatus |-> sec[id]]] :
            sec \in [PathNodes \ {u} -> {3, 9}]} : u \in PathNodes}

UnknownInit == PathInitWith(PartialAssignments)

\* FindPreferredPath with a security preference, GetSystemDetails failing
\* for one system
UnknownNext ==
  \E startID \in PathNodes, endID \in PathNodes, preference \in {"safer", "unsafe"},
     avoidList \in AvoidLists :
    PathCall("FindPreferredPath", startID, endID, preference, avoidList)

UnknownSpec == UnknownInit /\ [][UnknownNext]_vars

\* ------------------------------------------------------------------------
\* The searches step by step, on graphs with cycles, a self-loop, one-way
\* connections and a neighbour listed twice
\* ------------------------------------------------------------------------
SearchArcs == {<<1, 1>>, <<1, 2>>, <<2, 1>>, <<2, 3>>, <<3, 1>>}

\* the map with the arcs A, every adjacency list in ascending order; with
\* twice, system 2 is appended once more to the list of system 1
GraphOfArcs(A, twice) ==
  [k \in {a[1] : a \in A} |->
     LET nb == {a[2] : a \in {b \in A : b[1] = k}}
         list == CHOOSE f \in Orders(nb) : \A i, j \in 1..Cardinality(nb) : i < j => f[i] < f[j]
     IN  IF twice /\ k = 1 /\ 2 \in nb THEN Append(list, 2) ELSE list]

SearchGraphs == {GraphOfArcs(A, twice) : A \in SUBSET SearchArcs, twice \in BOOLEAN}

\* the system cache: system 2 is low security, the others high
SearchCaches ==
  {c \in SecurityAssignments : \A id \in PathNodes : c[id].SecurityStatus = 3 <=> id = 2}

SearchInit == PathInitOver(SearchGraphs, SearchCaches)

\* a route command with the avoid list avoidList reaches the search
SearchBegin(startID, endID, preference, avoidList) ==
  /\ proc = "running" /\ qpc = "idle"
  /\ q' = [NoQuery EXCEPT !.pathfinder = "FindPreferredPath",
                          !.startID = startID, !.endID = endID,
                          !.preference = preference, !.avoidList = avoidList]
  /\ qpc' = "rlock"
  /\ pathIDs' = <<>>
  /\ log' = log
  /\ UNCHANGED <<build, shutVars, intelVars, esiVars, killVars, loaded, proc, graphVars, graphMutex, tripwireFile, fetcherVars,
                 theraVars, qSnapshot, qReads>>

\* the earlier route command (part_006 lines 118-130), which calls
\* FindShortestPath
ShortestBegin(startID, endID, avoidList) ==
  /\ proc = "running" /\ qpc = "idle"
  /\ q' = [NoQuery EXCEPT !.pathfinder = "FindShortestPath",
                          !.startID = startID, !.endID = endID,
                          !.preference = "shortest", !.avoidList = avoidList]
  /\ qpc' = "brlock"
  /\ pathIDs' = <<>>
  /\ log' = log
  /\ UNCHANGED <<build, shutVars, intelVars, esiVars, killVars, loaded, proc, graphVars, graphMutex, tripwireFile, fetcherVars,
                 theraVars, qSnapshot, qReads>>

\* part_006 line 131 s.graphMutex.RLock(), and FindShortestPath lines
\* 244-252: the early return, the queue and the visited map
ShortestRLock ==
  /\ proc = "running" /\ qpc = "brlock"
  /\ CanRLock
  /\ graphMutex' = [graphMutex EXCEPT !.readers = @ + 1]
  /\ IF q.startID \in q.avoidList \/ q.endID \in q.avoidList
     THEN /\ q' = [q EXCEPT !.graph = service_universeGraph]
          /\ qpc' = "runlock"
     ELSE /\ q' = [q EXCEPT !.graph = service_universeGraph,
                            !.st = [queue |-> <<q.startID>>,
                                    visited |-> [id \in {q.startID} |-> -1],
                                    head |-> 1]]
          /\ qpc' = "bfs"
  /\ qSnapshot' = heap[service_universeGraph]
  /\ qReads' = {}
  /\ log' = log
  /\ UNCHANGED <<build, shutVars, intelVars, esiVars, killVars, loaded, proc, graphVars, tripwireFile, fetcherVars, theraVars,
                 pathIDs>>

\* variant of ShortestStep that keeps its visited marks in the avoid list
\* the caller passed
ShortestStepMarksAvoidList ==
  /\ proc = "running" /\ qpc = "bfs"
  /\ LET bfs == q.st IN
     IF bfs.head > Len(bfs.queue)
     THEN /\ pathIDs' = <<>>
          /\ qpc' = "runlock"
          /\ UNCHANGED <<q, qReads>>
     ELSE LET currentSystem == bfs.queue[bfs.head]
              next == [bfs EXCEPT !.head = @ + 1]
          IN  IF currentSystem = q.endID
              THEN /\ pathIDs' = BFSPath(bfs.visited, currentSystem, <<>>)
                   /\ qpc' = "runlock"
                   /\ q' = [q EXCEPT !.st = next]
                   /\ UNCHANGED qReads
              ELSE LET neighbors == Nbrs(heap[q.graph], currentSystem)
                       visit == BFSVisit(next, neighbors, 1, currentSystem, q.avoidList)
                   IN
                   /\ q' = [q EXCEPT !.st = visit,
                                     !.avoidList = @ \cup (DOMAIN visit.visited \ {q.startID})]
                   /\ qReads' = qReads \cup {<<currentSystem, neighbors>>}
                   /\ UNCHANGED <<pathIDs, qpc>>
  /\ log' = log
  /\ UNCHANGED <<build, shutVars, intelVars, esiVars, killVars, loaded, proc, graphVars, graphMutex, tripwireFile, fetcherVars,
                 theraVars, qSnapshot>>

\* one iteration of the loop of FindShortestPath (lines 253-274), or its
\* return
ShortestStep ==
  /\ proc = "running" /\ qpc = "bfs"
  /\ LET bfs == q.st IN
     IF bfs.head > Len(bfs.queue)
     THEN /\ pathIDs' = <<>>
          /\ qpc' = "runlock"
          /\ UNCHANGED <<q, qReads>>
     ELSE LET currentSystem == bfs.queue[bfs.head]
              next == [bfs EXCEPT !.head = @ + 1]
          IN  IF currentSystem = q.endID
              THEN /\ pathIDs' = BFSPath(bfs.visited, currentSystem, <<>>)
                   /\ qpc' = "runlock"
                   /\ q' = [q EXCEPT !.st = next]
                   /\ UNCHANGED qReads
              ELSE LET neighbors == Nbrs(heap[q.graph], currentSystem) IN
                   /\ q' = [q EXCEPT !.st = BFSVisit(next, neighbors, 1, currentSystem,
                                                     q.avoidList)]
                   /\ qReads' = qReads \cup {<<currentSystem, neighbors>>}
                   /\ UNCHANGED <<pathIDs, qpc>>
  /\ log' = log
  /\ UNCHANGED <<build, shutVars, intelVars, esiVars, killVars, loaded, proc, graphVars, graphMutex, tripwireFile, fetcherVars,
                 theraVars, qSnapshot>>

SearchStarts == {1, 2, 3}
SearchEnds == {1, 3, 4}
SearchAvoidLists == {{}, {2}}

SearchNext ==
  \/ \E startID \in SearchStarts, endID \in SearchEnds, preference \in {"shortest", "safer"},
        avoidList \in SearchAvoidLists :
       SearchBegin(startID, endID, preference, avoidList)
  \/ \E startID \in SearchStarts, endID \in SearchEnds, avoidList \in SearchAvoidLists :
       ShortestBegin(startID, endID, avoidList)
  \/ QueryRLock
  \/ ShortestRLock
  \/ QueryStep
  \/ ShortestStep
  \/ QueryRUnlock
  \/ QueryRespond

\* a handler goroutine that can take its next step takes it: the search is
\* CPU-bound and no writer competes for the mutex here
SearchFairness ==
  /\ WF_vars(QueryRLock) /\ WF_vars(ShortestRLock)
  /\ WF_vars(QueryStep) /\ WF_vars(ShortestStep)
  /\ WF_vars(QueryRUnlock) /\ WF_vars(QueryRespond)

SearchSpec == SearchInit /\ [][SearchNext]_vars /\ SearchFairness

\* the writers of the persisted files and the handlers that read them
FileNext ==
  \/ /\ proc = "start"
     /\ \E theraErr \in BOOLEAN, conns \in TheraAnswers, order \in WormholeOrders(tripwireFile) :
          Main(theraErr, conns, order)
  \/ \E ok \in BOOLEAN : FetcherLogin(ok)
  \/ \E err \in BOOLEAN, data \in SamplePayloads : FetcherFetch(err, data)
  \/ \E order \in WormholeOrders(tripwireData) : FetcherMerge(order)
  \/ FetcherLock
  \/ FetcherSwap
  \/ FetcherUnlock
  \/ \E outcome \in {"ok", "marshal", "write"} : FetcherWriteOpen(outcome)
  \/ \E outcome \in {"ok", "write"} : FetcherWriteClose(outcome)
  \/ \E err \in BOOLEAN, kills \in KillAnswers : KillFetch(err, kills)
  \/ \E ok \in BOOLEAN : KillWriteTmpOpen(ok)
  \/ \E ok \in BOOLEAN : KillWriteTmp(ok)
  \/ \E ok \in BOOLEAN : KillRename(ok)
  \/ ServiceLoadKills
  \/ ServiceLoadTripwire

\* the split build at startup
FileInit == Init /\ build = "split"

FileSpec == FileInit /\ [][FileNext]_vars

\* ------------------------------------------------------------------------
\* the refresh loops under the scheduler's fairness
\* ------------------------------------------------------------------------
\* updateTripwireData line 170, Scraper.FetchData line 90: s.client.Do on the
\* http.Client of NewScraper, which sets no Timeout; a server that accepts
\* the request and never answers leaves the call, and with it the loop of
\* Start, blocked
FetcherFetchHangs ==
  /\ proc = "running" /\ build = "split" /\ fpc = "idle"
  /\ fpc' = "blocked"
  /\ log' = LogStart("fetcher", <<"[FETCHER] Fetching Tripwire data...">>)
  /\ UNCHANGED <<build, shutVars, intelVars, esiVars, killVars, loaded, proc, graphVars, graphMutex, tripwireFile, tripwireData,
                 tripwireErr, allScoutRoutes, scoutErr, newGraph, theraVars, queryVars>>

\* the answers of EVE-Scout and of ESI while the loops are followed
LiveTheraAnswers == {<<[DestinationSystem |-> [ID |-> 4]]>>}
LiveKillAnswers == {<<[SystemID |-> 1, ShipKills |-> 2]>>}

\* the steps of the three loops; a tick of a loop's ticker is the step that
\* leaves "idle"
FetcherCycle ==
  \/ \E err \in BOOLEAN, data \in SamplePayloads : FetcherFetch(err, data)
  \/ \E order \in WormholeOrders(tripwireData) : FetcherMerge(order)
  \/ FetcherSwap
  \/ FetcherUnlock
  \/ \E outcome \in {"ok", "marshal", "write"} : FetcherSave(outcome)

TheraCycle ==
  \/ \E err \in BOOLEAN, conns \in LiveTheraAnswers : TheraFetch(err, conns)
  \/ TheraInsert
  \/ TheraDedup
  \/ TheraUnlock

KillCycle ==
  \/ \E err \in BOOLEAN, kills \in LiveKillAnswers : KillFetch(err, kills)
  \/ \E ok \in BOOLEAN : KillWriteTmpOpen(ok)
  \/ \E ok \in BOOLEAN : KillWriteTmp(ok)
  \/ \E ok \in BOOLEAN : KillRename(ok)

LiveNext ==
  \/ /\ proc = "start"
     /\ \E theraErr \in BOOLEAN, order \in WormholeOrders(tripwireFile) :
          Main(theraErr, <<>>, order)
  \/ \E ok \in BOOLEAN : FetcherLogin(ok)
  \/ FetcherFetchHangs
  \/ FetcherCycle
  \/ FetcherLock
  \/ TheraCycle
  \/ TheraLock
  \/ KillCycle

\* every goroutine that can take a step takes it (the Go scheduler, the
\* tickers); a goroutine waiting in Lock gets the mutex (sync.RWMutex hands a
\* released lock to a blocked writer)
LiveFairness ==
  /\ WF_vars(FetcherCycle)
  /\ SF_vars(FetcherLock)
  /\ WF_vars(TheraCycle)
  /\ SF_vars(TheraLock)
  /\ WF_vars(KillCycle)

\* the split build started without a tripwire_data.json
LiveInit == Init /\ build = "split" /\ tripwireFile = Nil

LiveSpec == LiveInit /\ [][LiveNext]_vars /\ LiveFairness

\* ------------------------------------------------------------------------
\* main.go lines 79-100: the services are started and waited for
\* ------------------------------------------------------------------------
\* line 91 servicesWg.Add(3)
MainAdd ==
  /\ proc = "running" /\ mpc = "add"
  /\ servicesWg' = servicesWg + 3
  /\ mpc' = "go"
  /\ UNCHANGED <<build, intelVars, esiVars, killVars, loaded, proc, graphVars, graphMutex, tripwireFile,
                 fetcherVars, theraVars, queryVars, log, quit, svc>>

\* lines 92-96: the next go statement (startHealthCheckServer takes no
\* WaitGroup); after the last one main is at servicesWg.Wait()
MainGo ==
  /\ proc = "running" /\ mpc = "go"
  /\ LET i == CHOOSE j \in 1..Len(Services) :
                /\ svc[Services[j]] = "notstarted"
                /\ \A k \in 1..(j - 1) : svc[Services[k]] # "notstarted"
     IN  /\ svc' = [svc EXCEPT ![Services[i]] = "running"]
         /\ mpc' = IF i = Len(Services) THEN "wait" ELSE "go"
  /\ UNCHANGED <<build, intelVars, esiVars, killVars, loaded, proc, graphVars, graphMutex, tripwireFile,
                 fetcherVars, theraVars, queryVars, log, servicesWg, quit>>

\* lines 83-89: the signal goroutine receives SIGINT/SIGTERM and closes quit
CloseQuit ==
  /\ proc = "running" /\ ~quit
  /\ quit' = TRUE
  /\ log' = [log EXCEPT !["main"] = @ \o <<"--- Shutdown signal received, stopping services. ---">>]
  /\ UNCHANGED <<build, intelVars, esiVars, killVars, loaded, proc, graphVars, graphMutex, tripwireFile,
                 fetcherVars, theraVars, queryVars, mpc, servicesWg, svc>>

\* a Start method receives from quit and returns; its deferred wg.Done()
\* decrements the counter and panics when the counter becomes negative
\* (Fetcher.Start lines 144 and 162-164, Service.Start lines 33 and 51,
\* TheraUpdater.Start lines 150 and 162-164, KillDataUpdater.Start lines 27
\* and 39-41)
ServiceReturn(s) ==
  /\ proc = "running" /\ svc[s] = "running" /\ quit
  /\ svc' = [svc EXCEPT ![s] = "returned"]
  /\ servicesWg' = servicesWg - 1
  /\ IF servicesWg - 1 < 0
     THEN /\ proc' = "exited"
          /\ log' = [log EXCEPT !["main"] = @ \o <<"panic: sync: negative WaitGroup counter">>]
     ELSE /\ proc' = proc
          /\ log' = log
  /\ UNCHANGED <<build, intelVars, esiVars, killVars, loaded, graphVars, graphMutex, tripwireFile,
                 fetcherVars, theraVars, queryVars, mpc, quit>>

\* lines 99-100: servicesWg.Wait() returns when the counter is 0, and main
\* returns, which ends the process
MainWait ==
  /\ proc = "running" /\ mpc = "wait" /\ servicesWg = 0
  /\ mpc' = "done"
  /\ proc' = "exited"
  /\ log' = [log EXCEPT !["main"] = @ \o <<"--- All services have shut down. Exiting. ---">>]
  /\ UNCHANGED <<build, intelVars, esiVars, killVars, loaded, graphVars, graphMutex, tripwireFile,
                 fetcherVars, theraVars, queryVars, servicesWg, quit, svc>>

ShutdownNext ==
  \/ /\ proc = "start"
     /\ \E theraErr \in BOOLEAN, conns \in TheraAnswers, order \in WormholeOrders(tripwireFile) :
          Main(theraErr, conns, order)
  \/ MainAdd
  \/ MainGo
  \/ CloseQuit
  \/ \E s \in SeqToSet(Services) : ServiceReturn(s)
  \/ MainWait

ShutdownSpec == FileInit /\ [][ShutdownNext]_vars

\* the ESIClient with the system cache loaded or missing (main.go lines
\* 29-31), called from two goroutines
ESIInit ==
  /\ build = "split"
  /\ proc = "running"
  /\ LET fetcherService == New([r \in {1} |-> BuildGraphFromCSV(JumpsCSV)], 1)
     IN  heap = fetcherService.heap /\ baseStargateGraph = fetcherService.base
  /\ service_universeGraph = 1 /\ thera_universeGraph = 1 /\ fetcher_universeGraph = 1
  /\ graphMutex = [writer |-> "none", readers |-> 0]
  /\ tripwireFile = Nil
  /\ fpc = "login" /\ tripwireData = Nil /\ tripwireErr = FALSE
  /\ allScoutRoutes = <<>> /\ scoutErr = FALSE /\ newGraph = EmptyGraph
  /\ tpc = "idle" /\ theraConnections = <<>> /\ tIdx = 0
  /\ qpc = "idle" /\ q = NoQuery /\ pathIDs = <<>>
  /\ log = [g \in {"main", "fetcher", "thera"} |-> <<>>]
  /\ qSnapshot = EmptyGraph /\ qReads = {}
  /\ systemInfoCache \in {SystemCacheFile, [id \in {} |-> Nil]}
  /\ InitClients

ESINext ==
  \/ \E c \in ESICallers, name \in NameInputs : ESICall(c, "GetSystemID", name, 0)
  \/ \E c \in ESICallers, id \in IdInputs : ESICall(c, "getName", <<>>, id)
  \/ \E c \in ESICallers, id \in IdInputs : ESICall(c, "GetSystemDetails", <<>>, id)
  \/ \E c \in ESICallers : ESIRLock(c)
  \/ \E c \in ESICallers : ESILookup(c)
  \/ \E c \in ESICallers, answer \in {"error", "empty", "found"} : ESIRequest(c, answer)
  \/ \E c \in ESICallers : ESILock(c)
  \/ \E c \in ESICallers : ESIStore(c)
  \/ \E c \in ESICallers : ESIReturn(c)

ESISpec == ESIInit /\ [][ESINext]_vars

\* ------------------------------------------------------------------------
\* The two mutexes together: a route query whose search calls
\* GetSystemDetails, the two refreshers, and a handler resolving a name
\* ------------------------------------------------------------------------
\* FindPreferredPath lines 438-471: the scan for the cheapest frontier
\* entry, the pop, and the return or the start of the loop over neighbours
QueryPop ==
  /\ proc = "running" /\ qpc = "search"
  /\ LET st == q.st
         currentIndex == ScanPQ(st.pq, st.costs, 1, ScanStart, 0)
     IN  IF Len(st.pq) = 0 \/ currentIndex = 0
         THEN /\ pathIDs' = <<>>
              /\ qpc' = "runlock"
              /\ q' = q
         ELSE LET currentID == st.pq[currentIndex] IN
              IF currentID = q.endID
              THEN /\ pathIDs' = Reconstruct(st.parents, q.startID, q.endID, <<>>)
                   /\ qpc' = "runlock"
                   /\ q' = [q EXCEPT !.st.pq = RemoveAt(st.pq, currentIndex)]
              ELSE /\ pathIDs' = pathIDs
                   /\ qpc' = "nbr"
                   /\ q' = [q EXCEPT !.st = [costs |-> st.costs, parents |-> st.parents,
                                             pq |-> RemoveAt(st.pq, currentIndex),
                                             currentID |-> currentID, i |-> 1]]
  /\ UNCHANGED <<build, shutVars, intelVars, esiVars, killVars, loaded, proc, graphVars, graphMutex,
                 tripwireFile, fetcherVars, theraVars, qSnapshot, qReads, log>>

\* the search state after neighbour i of currentID has been treated with
\* lines 473-495
AfterNeighbor(st, neighborID) ==
  LET r == Relax([costs |-> st.costs, parents |-> st.parents, pq |-> st.pq],
                 <<neighborID>>, 1, st.currentID, q.preference, q.avoidList)
  IN  [costs |-> r.costs, parents |-> r.parents, pq |-> r.pq,
       currentID |-> st.currentID, i |-> st.i + 1]

\* lines 473-479: the next neighbour; an avoided one is skipped, preference
\* shortest needs no details, otherwise GetSystemDetails is called
QueryNeighbor ==
  /\ proc = "running" /\ qpc = "nbr"
  /\ LET st == q.st
         neighbors == Nbrs(heap[q.graph], st.currentID)
     IN  IF st.i > Len(neighbors)
         THEN /\ qpc' = "search"
              /\ q' = [q EXCEPT !.st = [costs |-> st.costs, parents |-> st.parents, pq |-> st.pq]]
         ELSE IF neighbors[st.i] \in q.avoidList \/ q.preference = "shortest"
              THEN /\ qpc' = "nbr"
                   /\ q' = [q EXCEPT !.st = AfterNeighbor(st, neighbors[st.i])]
              ELSE /\ qpc' = "drlock"
                   /\ q' = q
  /\ UNCHANGED <<build, shutVars, intelVars, esiVars, killVars, loaded, proc, graphVars, graphMutex,
                 tripwireFile, fetcherVars, theraVars, pathIDs, qSnapshot, qReads, log>>

\* GetSystemDetails line 423: c.cacheMutex.RLock(), called by the search
\* while the handler holds graphMutex.RLock
QueryDetailRLock ==
  /\ proc = "running" /\ qpc = "drlock"
  /\ cacheMutex.writer = "none"
  /\ cacheMutex' = [cacheMutex EXCEPT !.readers = @ \cup {"query"}]
  /\ qpc' = "dread"
  /\ UNCHANGED <<build, shutVars, intelVars, systemInfoCache, systemIDCache, nameCache, esi, killVars,
                 loaded, proc, graphVars, graphMutex, tripwireFile, fetcherVars, theraVars,
                 q, pathIDs, qSnapshot, qReads, log>>

\* variant of QueryDetailRead that returns the error of a missing entry
\* without releasing the read lock
QueryDetailReadLeaking ==
  /\ proc = "running" /\ qpc = "dread"
  /\ LET neighborID == Nbrs(heap[q.graph], q.st.currentID)[q.st.i] IN
     /\ q' = [q EXCEPT !.st = AfterNeighbor(q.st, neighborID)]
     /\ cacheMutex' = IF GetSystemDetails(neighborID).err THEN cacheMutex
                      ELSE [cacheMutex EXCEPT !.readers = @ \ {"query"}]
  /\ qpc' = "nbr"
  /\ UNCHANGED <<build, shutVars, intelVars, systemInfoCache, systemIDCache, nameCache, esi, killVars,
                 loaded, proc, graphVars, graphMutex, tripwireFile, fetcherVars, theraVars,
                 pathIDs, qSnapshot, qReads, log>>

\* GetSystemDetails lines 424-430 with the deferred RUnlock, and lines
\* 480-495 of the search with the result
QueryDetailRead ==
  /\ proc = "running" /\ qpc = "dread"
  /\ LET neighborID == Nbrs(heap[q.graph], q.st.currentID)[q.st.i] IN
     q' = [q EXCEPT !.st = AfterNeighbor(q.st, neighborID)]
  /\ cacheMutex' = [cacheMutex EXCEPT !.readers = @ \ {"query"}]
  /\ qpc' = "nbr"
  /\ UNCHANGED <<build, shutVars, intelVars, systemInfoCache, systemIDCache, nameCache, esi, killVars,
                 loaded, proc, graphVars, graphMutex, tripwireFile, fetcherVars, theraVars,
                 pathIDs, qSnapshot, qReads, log>>

\* the handler that resolves names while the query runs, and what it asks for
Resolver == "h1"
ResolvedNames == {SystemName(theraSystemID)}

\* the steps that take a mutex, run under one or release one
LockSteps ==
  \/ FetcherLock \/ FetcherSwap \/ FetcherUnlock
  \/ TheraLock \/ TheraInsert \/ TheraDedup \/ TheraUnlock
  \/ QueryRLock \/ QueryPop \/ QueryNeighbor \/ QueryDetailRLock \/ QueryDetailRead
  \/ QueryRUnlock
  \/ ESIRLock(Resolver) \/ ESILookup(Resolver) \/ ESILock(Resolver) \/ ESIStore(Resolver)

LockNext ==
  \/ /\ proc = "start"
     /\ \E theraErr \in BOOLEAN, order \in WormholeOrders(tripwireFile) :
          Main(theraErr, <<>>, order)
  \/ FetcherLogin(TRUE)
  \/ \E err \in BOOLEAN, data \in SamplePayloads : FetcherFetch(err, data)
  \/ \E order \in WormholeOrders(tripwireData) : FetcherMerge(order)
  \/ \E outcome \in {"ok", "write"} : FetcherSave(outcome)
  \/ \E err \in BOOLEAN, conns \in LiveTheraAnswers : TheraFetch(err, conns)
  \/ QueryBegin(4, 1, "safer")
  \/ QueryRespond
  \/ \E name \in ResolvedNames : ESICall(Resolver, "GetSystemID", name, 0)
  \/ \E answer \in {"error", "found"} : ESIRequest(Resolver, answer)
  \/ ESIReturn(Resolver)
  \/ LockSteps

LockSpec == LiveInit /\ [][LockNext]_vars

\* ------------------------------------------------------------------------
\* Service.fetchIntelForPath (bot_service.go lines 358-395)
\* ------------------------------------------------------------------------
\* what the steps of fetchIntelForPath leave alone
IntelFrame ==
  UNCHANGED <<build, shutVars, esiVars, killVars, loaded, proc, graphVars, graphMutex,
              tripwireFile, fetcherVars, theraVars, queryVars, log>>

\* the maps loadKills and loadTripwire hand to fetchIntelForPath
IntelKillMap == [id \in {1} |-> 2]
IntelSigMap == [id \in {4} |-> <<"A", "B", "C">>]

\* lines 367-384: the SystemIntel a worker builds for sysID
IntelOf(sysID) ==
  LET d == GetSystemDetails(sysID) IN
  [Name        |-> IF d.err THEN Unknown \o <<" ", "(", sysID, ")">> ELSE d.sys.Name,
   SecDisplay  |-> IF d.err THEN "N/A" ELSE d.sys.SecurityStatus,
   KillCount   |-> IF sysID \in DOMAIN IntelKillMap THEN IntelKillMap[sysID] ELSE 0,
   SignatureID |-> IF sysID \in DOMAIN IntelSigMap THEN IntelSigMap[sysID] ELSE <<>>]

\* lines 359-361: handleRouteCommand line 211 calls fetchIntelForPath(path)
IntelBegin(path) ==
  /\ proc = "running" /\ ipc = "idle"
  /\ ipc' = "spawn"
  /\ iPath' = path
  /\ intelMap' = [id \in {} |-> Nil]
  /\ intelMu' = 0 /\ intelWg' = 0
  /\ workers' = <<>>
  /\ IntelFrame

\* lines 363-365 and 392: wg.Add(1) and the go statement for the next id of
\* the path; after the last one the caller is at wg.Wait()
IntelSpawn ==
  /\ proc = "running" /\ ipc = "spawn"
  /\ IF Len(workers) < Len(iPath)
     THEN /\ intelWg' = intelWg + 1
          /\ workers' = Append(workers, [sysID |-> iPath[Len(workers) + 1],
                                         pc |-> "build", intel |-> Nil])
          /\ ipc' = ipc
     ELSE /\ ipc' = "wait"
          /\ UNCHANGED <<intelWg, workers>>
  /\ UNCHANGED <<iPath, intelMap, intelMu>>
  /\ IntelFrame

\* lines 367-386: worker w builds its SystemIntel
WorkerBuild(w) ==
  /\ proc = "running" /\ w \in DOMAIN workers /\ workers[w].pc = "build"
  /\ workers' = [workers EXCEPT ![w].intel = IntelOf(workers[w].sysID), ![w].pc = "lock"]
  /\ UNCHANGED <<ipc, iPath, intelMap, intelMu, intelWg>>
  /\ IntelFrame

\* variant of WorkerLock that does not wait for the mutex
WorkerLockNoWait(w) ==
  /\ proc = "running" /\ w \in DOMAIN workers /\ workers[w].pc = "lock"
  /\ intelMu' = w
  /\ workers' = [workers EXCEPT ![w].pc = "write"]
  /\ UNCHANGED <<ipc, iPath, intelMap, intelWg>>
  /\ IntelFrame

\* line 388 mu.Lock()
WorkerLock(w) ==
  /\ proc = "running" /\ w \in DOMAIN workers /\ workers[w].pc = "lock"
  /\ intelMu = 0
  /\ intelMu' = w
  /\ workers' = [workers EXCEPT ![w].pc = "write"]
  /\ UNCHANGED <<ipc, iPath, intelMap, intelWg>>
  /\ IntelFrame

\* line 389 intelMap[sysID] = intel
WorkerWrite(w) ==
  /\ proc = "running" /\ w \in DOMAIN workers /\ workers[w].pc = "write"
  /\ intelMap' = MapSet(intelMap, workers[w].sysID, workers[w].intel)
  /\ workers' = [workers EXCEPT ![w].pc = "unlock"]
  /\ UNCHANGED <<ipc, iPath, intelMu, intelWg>>
  /\ IntelFrame

\* line 390 mu.Unlock()
WorkerUnlock(w) ==
  /\ proc = "running" /\ w \in DOMAIN workers /\ workers[w].pc = "unlock"
  /\ intelMu' = 0
  /\ workers' = [workers EXCEPT ![w].pc = "deferred"]
  /\ UNCHANGED <<ipc, iPath, intelMap, intelWg>>
  /\ IntelFrame

\* line 366: the deferred wg.Done() as the goroutine returns
WorkerDone(w) ==
  /\ proc = "running" /\ w \in DOMAIN workers /\ workers[w].pc = "deferred"
  /\ intelWg' = intelWg - 1
  /\ workers' = [workers EXCEPT ![w].pc = "returned"]
  /\ UNCHANGED <<ipc, iPath, intelMap, intelMu>>
  /\ IntelFrame

\* lines 394-395: wg.Wait() returns when the counter is 0; return intelMap
IntelWait ==
  /\ proc = "running" /\ ipc = "wait" /\ intelWg = 0
  /\ ipc' = "done"
  /\ UNCHANGED <<iPath, intelMap, intelMu, intelWg, workers>>
  /\ IntelFrame

\* handleRouteCommand lines 212-213: the answer is formatted from intelMap
IntelReturn ==
  /\ proc = "running" /\ ipc = "done"
  /\ ipc' = "idle"
  /\ UNCHANGED <<iPath, intelMap, intelMu, intelWg, workers>>
  /\ IntelFrame

\* the routes the pathfinder hands over: no system twice, at most
\* MaxIntelPath systems
MaxIntelPath == 3
IntelSystems == {1, 4, theraSystemID}
IntelPaths ==
  {p \in SeqsUpTo(IntelSystems, MaxIntelPath) :
     Len(p) >= 1 /\ \A i, j \in 1..Len(p) : i # j => p[i] # p[j]}

IntelNext ==
  \/ \E path \in IntelPaths : IntelBegin(path)
  \/ IntelSpawn
  \/ \E w \in 1..MaxIntelPath : WorkerBuild(w)
  \/ \E w \in 1..MaxIntelPath : WorkerLock(w)
  \/ \E w \in 1..MaxIntelPath : WorkerWrite(w)
  \/ \E w \in 1..MaxIntelPath : WorkerUnlock(w)
  \/ \E w \in 1..MaxIntelPath : WorkerDone(w)
  \/ IntelWait
  \/ IntelReturn

IntelSpec == ESIInit /\ [][IntelNext]_vars

TypeOK ==
  /\ build \in {"split", "combined"}
  /\ proc \in {"start", "running", "exited"}
  /\ fpc \in {"login", "idle", "merge", "lock", "swap", "unlock", "save", "write", "blocked"}
  /\ kpc \in {"idle", "tmp", "tmpwrite", "rename"}
  /\ mpc \in {"add", "go", "wait", "done"}
  /\ ipc \in {"idle", "spawn", "wait", "done"}
  /\ tpc \in {"idle", "lock", "insert", "dedup", "unlock"}
  /\ qpc \in {"idle", "rlock", "search", "runlock", "respond", "brlock", "bfs",
              "nbr", "drlock", "dread"}
  /\ graphMutex.writer \in {"none", "fetcher", "thera"}
  /\ graphMutex.readers \in 0..1

\* ------------------------------------------------------------------------
\* Properties
\* ------------------------------------------------------------------------
HasEdge(graph, a, b) == b \in NbrSet(graph, a) /\ a \in NbrSet(graph, b)

Symmetric(graph) ==
  \A a \in DOMAIN graph : \A b \in NbrSet(graph, a) : a \in NbrSet(graph, b)

FetchWarning == "[FETCHER] WARNING: Tripwire data fetch failed"
TheraError == "[THERA UPDATER] ERROR: Failed to fetch Thera data"

\* a step of the Fetcher goroutine / of the TheraUpdater goroutine
FetcherStep == fetcherVars' # fetcherVars \/ log'["fetcher"] # log["fetcher"]
TheraStep == theraVars' # theraVars \/ log'["thera"] # log["thera"]

\* C1: every neighbour list a route query has read since it took the read
\* lock is the list of the graph as it stood when the lock was taken, whatever
\* the Tripwire and Thera refresh cycles did in between.
C1_QueryAtomicity ==
  qpc \in {"search", "runlock"} =>
    \A r \in qReads : r[2] = Nbrs(qSnapshot, r[1])

\* a query in the middle of its search while a Thera cycle with a connection
\* to insert and a Tripwire cycle with a built graph both stand at Lock()
C1_Witness ==
  /\ qpc = "search" /\ qReads # {}
  /\ tpc = "lock" /\ theraConnections # <<>>
  /\ fpc = "lock"

\* C2: once the Fetcher has swapped, a route query that holds the read lock
\* searches the graph the Fetcher built.
C2_PublicationSupersedes ==
  (qpc = "search" /\ fetcher_universeGraph = 2) =>
    heap[q.graph] = heap[fetcher_universeGraph]

\* C3: the graph instance Service.universeGraph refers to is never changed by
\* a step of a background service.
C3_PublishedImmutable ==
  [][proc = "running" => heap'[service_universeGraph] = heap[service_universeGraph]]_vars

\* C4: whoever holds graphMutex exclusively is not inserting edges or
\* deduplicating, and no route query stands at RLock() while a refresher
\* does so.
C4_ReadersNotBlockedByConstruction ==
  /\ graphMutex.writer # "none" => tpc \notin {"insert", "dedup"}
  /\ ~(qpc = "rlock" /\ graphMutex.writer # "none" /\ tpc \in {"insert", "dedup"})

\* C5: a combined cycle in which exactly one source failed has published a
\* graph with the valid edges of the other source.
C5_PartialFailurePublishes ==
  build = "combined" =>
    /\ (fpc = "idle" /\ tripwireErr /\ ~scoutErr) =>
         \A i \in 1..Len(allScoutRoutes) :
           (allScoutRoutes[i].InSystemID # 0 /\ allScoutRoutes[i].OutSystemID # 0) =>
             HasEdge(heap[fetcher_universeGraph], allScoutRoutes[i].InSystemID,
                     allScoutRoutes[i].OutSystemID)
    /\ (fpc = "save" /\ ~tripwireErr /\ scoutErr) =>
         \A id \in DOMAIN tripwireData.Wormholes :
           StartupRecordValid(tripwireData, tripwireData.Wormholes[id]) =>
             HasEdge(heap[fetcher_universeGraph],
                     WhSysA(tripwireData, tripwireData.Wormholes[id]),
                     WhSysB(tripwireData, tripwireData.Wormholes[id]))

\* C6: no step of a refresh cycle whose every fetch failed changes a graph, a
\* graph reference or tripwire_data.json, and the cycle's log carries the
\* failure line.
C6_TotalFailureKeepsSnapshot ==
  [][/\ (FetcherStep /\ tripwireErr' /\ (build = "combined" => scoutErr')) =>
          /\ UNCHANGED <<heap, service_universeGraph, thera_universeGraph,
                         fetcher_universeGraph, tripwireFile>>
          /\ FetchWarning \in SeqToSet(log'["fetcher"])
     /\ (TheraStep /\ tpc = "idle" /\ tpc' = "idle") =>
          /\ UNCHANGED <<heap, service_universeGraph, thera_universeGraph,
                         fetcher_universeGraph, tripwireFile>>
          /\ TheraError \in SeqToSet(log'["thera"])
    ]_vars

\* both refreshers have just come back from a failed fetch
C6_Witness ==
  /\ build = "split" /\ proc = "running"
  /\ fpc = "idle" /\ tripwireErr /\ log["fetcher"] = <<FetchWarning>>
  /\ tpc = "idle" /\ log["thera"] = <<TheraError>>

\* the signature markers of a record are both present and not "???"
MarkersScanned(data, wh) ==
  /\ WhResolves(data, wh)
  /\ data.Signatures[wh.InitialID].SignatureID \notin {NilStr, "???"}
  /\ data.Signatures[wh.SecondaryID].SignatureID \notin {NilStr, "???"}

\* the edge a-b of the graph comes from a record of data with scanned markers
FromScannedRecord(data, a, b) ==
  /\ data # Nil
  /\ \E id \in DOMAIN data.Wormholes :
       LET wh == data.Wormholes[id] IN
       /\ MarkersScanned(data, wh)
       /\ {WhSysA(data, wh), WhSysB(data, wh)} = {a, b}

FromScoutRoute(routes, a, b) ==
  \E i \in 1..Len(routes) : {routes[i].InSystemID, routes[i].OutSystemID} = {a, b}

\* C7: an edge of a graph built from a Tripwire payload that the base does not
\* have comes from a record whose two markers are present and not "???": at
\* startup (the graph main hands out) and in every refresh (newGraph).
C7_SentinelRejected ==
  /\ (proc = "running" /\ fpc = "login") =>
       \A a \in DOMAIN heap[1] : \A b \in NbrSet(heap[1], a) :
         \/ HasEdge(BuildGraphFromCSV(JumpsCSV), a, b)
         \/ theraSystemID \in {a, b}
         \/ FromScannedRecord(tripwireFile, a, b)
  /\ fpc = "lock" =>
       \A a \in DOMAIN newGraph : \A b \in NbrSet(newGraph, a) :
         \/ HasEdge(heap[baseStargateGraph], a, b)
         \/ FromScannedRecord(tripwireData, a, b)
         \/ FromScoutRoute(allScoutRoutes, a, b)

NoZero(graph) == 0 \notin DOMAIN graph /\ \A k \in DOMAIN graph : 0 \notin NbrSet(graph, k)

\* C8: system id 0 is neither a key nor a neighbour in any graph, published
\* or being built.
C8_NoZeroEndpoint ==
  /\ \A r \in DOMAIN heap : NoZero(heap[r])
  /\ NoZero(newGraph)

\* the payload without its invalid records (unknown signature id, missing or
\* zero system id, marker absent or "???")
ValidRecordsOnly(data) ==
  [Signatures |-> data.Signatures,
   Wormholes  |-> [id \in {w \in DOMAIN data.Wormholes :
                             StartupRecordValid(data, data.Wormholes[w])} |->
                     data.Wormholes[id]]]

AnOrder(data) == CHOOSE order \in WormholeOrders(data) : TRUE

\* C9: the graph merged from a batch has the neighbour sets of the graph
\* merged from the batch without its invalid records, at startup and in a
\* refresh.
C9_PerRecordRejection ==
  /\ (proc = "running" /\ fpc = "login" /\ tripwireFile # Nil) =>
       \A a \in DOMAIN heap[1] : \A b \in NbrSet(heap[1], a) :
         \/ theraSystemID \in {a, b}
         \/ HasEdge(AddTripwireWormholesToGraph(BuildGraphFromCSV(JumpsCSV),
                      ValidRecordsOnly(tripwireFile), AnOrder(ValidRecordsOnly(tripwireFile))), a, b)
  /\ (build = "split" /\ fpc = "lock") =>
       SameEdges(newGraph,
                 MergeTripwire(heap[baseStargateGraph], ValidRecordsOnly(tripwireData),
                               AnOrder(ValidRecordsOnly(tripwireData))))

\* C10: whenever no writer holds graphMutex, every graph in memory, the one
\* route queries search in particular, lists a in the neighbours of b exactly
\* when it lists b in the neighbours of a.
C10_Symmetry ==
  (proc = "running" /\ graphMutex.writer = "none") =>
    \A r \in DOMAIN heap : Symmetric(heap[r])

\* a query searching a graph that holds a startup wormhole edge and a Thera
\* edge inserted by a refresh
C10_Witness ==
  /\ qpc = "search"
  /\ HasEdge(heap[q.graph], 1, 4)
  /\ HasEdge(heap[q.graph], theraSystemID, 4)
  /\ ~HasEdge(heap[baseStargateGraph], theraSystemID, 4)

\* no system appears twice in an adjacency list
NoDuplicates(graph) ==
  \A k \in DOMAIN graph : \A i, j \in 1..Len(graph[k]) :
    i # j => graph[k][i] # graph[k][j]

\* C11: the graph a Fetcher refresh cycle has assigned under Lock lists no
\* system twice in any adjacency list.
C11_PublishedDeduplicated ==
  fetcher_universeGraph = 2 => NoDuplicates(heap[fetcher_universeGraph])

\* the edge a-b is the edge of a record of the payload that the refresh
\* merge accepts
FromPayloadRecord(data, a, b) ==
  /\ data # Nil
  /\ \E id \in DOMAIN data.Wormholes :
       /\ RefreshRecordValid(data, data.Wormholes[id])
       /\ {WhSysA(data, data.Wormholes[id]), WhSysB(data, data.Wormholes[id])} = {a, b}

\* C12: right after a refresh cycle's swap, every edge of the graph it
\* published is a stargate edge or an edge of the payloads fetched in that
\* cycle: wormhole and Thera edges of startup or of earlier cycles are gone.
C12_DynamicEdgesProvisional ==
  (fpc \in {"unlock", "save"} /\ fetcher_universeGraph = 2) =>
    \A a \in DOMAIN heap[fetcher_universeGraph] :
      \A b \in NbrSet(heap[fetcher_universeGraph], a) :
        \/ HasEdge(BuildGraphFromCSV(JumpsCSV), a, b)
        \/ FromPayloadRecord(tripwireData, a, b)
        \/ FromScoutRoute(allScoutRoutes, a, b)

\* C13: once New has made its copy, no step changes the map object
\* Fetcher.baseStargateGraph refers to, nor the reference.
C13_BaseNeverMutated ==
  [][proc = "running" =>
       /\ baseStargateGraph' = baseStargateGraph
       /\ heap'[baseStargateGraph] = heap[baseStargateGraph]]_vars

\* the Fetcher has swapped and the Thera updater has appended an edge to the
\* shared map that the base does not have
C13_Witness ==
  /\ proc = "running" /\ fetcher_universeGraph = 2
  /\ HasEdge(heap[thera_universeGraph], theraSystemID, 4)
  /\ ~HasEdge(heap[baseStargateGraph], theraSystemID, 4)
  /\ heap[fetcher_universeGraph] # heap[baseStargateGraph]

\* the iteration orders of a slice of routes
RouteOrders(routes) ==
  {[i \in 1..Len(routes) |-> routes[p[i]]] : p \in Orders(1..Len(routes))}

SearchedGraph == heap[q.graph]

\* path leads from s to e along the adjacency lists of graph
IsRoute(graph, path, s, e) ==
  /\ Len(path) >= 1
  /\ path[1] = s /\ path[Len(path)] = e
  /\ \A i \in 1..(Len(path) - 1) : path[i + 1] \in NbrSet(graph, path[i])

Avoids(path, avoidList) == \A i \in 1..Len(path) : path[i] \notin avoidList

\* the cost of entering system n: 1, plus 100 when its cached security
\* status is below 0.5 under safer, or at least 0.5 under unsafe
EnterCost(n, preference) ==
  LET cached == n \in DOMAIN systemInfoCache
      low == cached /\ systemInfoCache[n].SecurityStatus < 5
      high == cached /\ systemInfoCache[n].SecurityStatus >= 5
  IN  IF (preference = "safer" /\ low) \/ (preference = "unsafe" /\ high)
      THEN 1 + 100 ELSE 1

\* the cost of entering the systems of path after the first
RECURSIVE RouteCost(_, _, _)
RouteCost(path, preference, i) ==
  IF i > Len(path) THEN 0
  ELSE EnterCost(path[i], preference) + RouteCost(path, preference, i + 1)

\* the systems entered along path whose cached security status is below 0.5
LowSecEntered(path) ==
  Cardinality({i \in 2..Len(path) :
                 /\ path[i] \in DOMAIN systemInfoCache
                 /\ systemInfoCache[path[i]].SecurityStatus < HighSecTenths})

SetMin(S) == CHOOSE x \in S : \A y \in S : x <= y

\* the routes to e that continue the route p and pass no system twice
RECURSIVE RoutesFrom(_, _, _)
RoutesFrom(graph, p, e) ==
  IF p[Len(p)] = e THEN {p}
  ELSE UNION {RoutesFrom(graph, Append(p, n), e) :
                n \in NbrSet(graph, p[Len(p)]) \ SeqToSet(p)}

SimpleRoutes(graph, s, e) == RoutesFrom(graph, <<s>>, e)

\* least cost over the routes from s to e that avoid avoidList (a cheapest
\* route passes no system twice); InfCost when there is none
LeastRouteCost(graph, s, e, preference, avoidList) ==
  LET routes == {p \in SimpleRoutes(graph, s, e) : Avoids(p, avoidList)}
  IN  IF routes = {} THEN InfCost
      ELSE SetMin({RouteCost(p, preference, 2) : p \in routes})

\* C15: a pathfinder call whose start or end is in the exclusion set returns
\* the nil path, also when start = end.
C15_ExcludedEndpoints ==
  (qpc = "respond" /\ (q.startID \in q.avoidList \/ q.endID \in q.avoidList)) =>
    pathIDs = <<>>

\* C16: the route the route command gets back holds no system of the avoid
\* list of that command (which always has Zarzakh in it).
C16_ExclusionsImpassable ==
  (qpc = "respond" /\ Zarzakh \in q.avoidList) => Avoids(pathIDs, q.avoidList)

\* C17: with start = end = s, s a node of the graph, preference shortest and
\* an empty exclusion set, each pathfinder returns exactly [s].
C17_TrivialRoute ==
  (/\ qpc = "respond"
   /\ q.startID = q.endID /\ q.startID \in DOMAIN SearchedGraph
   /\ q.preference = "shortest" /\ q.avoidList = {}) =>
    pathIDs = <<q.startID>>

\* FindPreferredPath has answered a call from a node of the graph to itself
C17_Witness ==
  /\ qpc = "respond" /\ q.pathfinder = "FindPreferredPath"
  /\ q.startID = 2 /\ q.endID = 2 /\ 2 \in DOMAIN SearchedGraph
  /\ q.preference = "shortest" /\ q.avoidList = {}
  /\ pathIDs = <<2>>

\* C18: on a symmetric graph, with neither endpoint excluded, preference
\* shortest returns nil exactly when no route avoids the exclusion set, and
\* otherwise a route that avoids it with the least number of jumps.
C18_ShortestOptimal ==
  (/\ qpc = "respond" /\ q.preference = "shortest"
   /\ Symmetric(SearchedGraph)
   /\ q.startID \notin q.avoidList /\ q.endID \notin q.avoidList) =>
    LET least == LeastRouteCost(SearchedGraph, q.startID, q.endID, "shortest", q.avoidList)
    IN  IF least >= InfCost THEN pathIDs = <<>>
        ELSE /\ IsRoute(SearchedGraph, pathIDs, q.startID, q.endID)
             /\ Avoids(pathIDs, q.avoidList)
             /\ Len(pathIDs) - 1 = least

\* stargates 1-2, 2-3, 3-4 and the wormhole 1-4: the route 1 -> 4 is [1, 4]
C18_Witness ==
  /\ qpc = "respond" /\ q.pathfinder = "FindPreferredPath" /\ q.preference = "shortest"
  /\ SearchedGraph = GraphOfEdges({{1, 2}, {2, 3}, {3, 4}, {1, 4}})
  /\ q.startID = 1 /\ q.endID = 4 /\ q.avoidList = {}
  /\ pathIDs = <<1, 4>>

\* C19: when some route avoids the exclusion set, FindPreferredPath with
\* preference safer or unsafe returns such a route whose cost (1 per entered
\* system, plus 100 for each penalised one) is the least possible.
C19_WeightedOptimal ==
  (/\ qpc = "respond" /\ q.pathfinder = "FindPreferredPath"
   /\ q.preference \in {"safer", "unsafe"}) =>
    LET least == LeastRouteCost(SearchedGraph, q.startID, q.endID, q.preference, q.avoidList)
    IN  least < InfCost =>
          /\ IsRoute(SearchedGraph, pathIDs, q.startID, q.endID)
          /\ Avoids(pathIDs, q.avoidList)
          /\ RouteCost(pathIDs, q.preference, 2) = least

\* a safer route that costs less than the route returned for shortest,
\* because it stays out of a low-security system
C19_Witness ==
  /\ qpc = "respond" /\ q.pathfinder = "FindPreferredPath" /\ q.preference = "safer"
  /\ pathIDs # <<>>
  /\ RouteCost(pathIDs, "safer", 2) <
       RouteCost(FindPreferredPath(SearchedGraph, q.startID, q.endID, "shortest",
                                   q.avoidList), "safer", 2)

\* C20: the route returned for safer enters at most as many low-security
\* systems as the route returned for shortest on the same input.
C20_PreferenceEffect ==
  (/\ qpc = "respond" /\ q.pathfinder = "FindPreferredPath" /\ q.preference = "safer"
   /\ pathIDs # <<>>) =>
    LET shortest == FindPreferredPath(SearchedGraph, q.startID, q.endID, "shortest",
                                      q.avoidList)
    IN  shortest # <<>> /\ LowSecEntered(pathIDs) <= LowSecEntered(shortest)

\* the safer route enters strictly fewer low-security systems
C20_Witness ==
  /\ qpc = "respond" /\ q.pathfinder = "FindPreferredPath" /\ q.preference = "safer"
  /\ pathIDs # <<>>
  /\ LowSecEntered(pathIDs) <
       LowSecEntered(FindPreferredPath(SearchedGraph, q.startID, q.endID, "shortest",
                                       q.avoidList))

\* C21: FindPreferredPath with preference safer or unsafe returns a route
\* exactly when it returns one for preference shortest on the same graph,
\* start, end and exclusion set.
C21_PreferenceKeepsReachability ==
  (/\ qpc = "respond" /\ q.pathfinder = "FindPreferredPath"
   /\ q.preference \in {"safer", "unsafe"}) =>
    ((pathIDs # <<>>) <=>
       (FindPreferredPath(SearchedGraph, q.startID, q.endID, "shortest", q.avoidList) # <<>>))

\* a safer route was returned although every route that avoids the exclusion
\* set enters a low-security system
C21_Witness ==
  /\ qpc = "respond" /\ q.pathfinder = "FindPreferredPath" /\ q.preference = "safer"
  /\ q.startID # q.endID
  /\ pathIDs # <<>> /\ LowSecEntered(pathIDs) >= 1
  /\ \A p \in SimpleRoutes(SearchedGraph, q.startID, q.endID) :
       Avoids(p, q.avoidList) => LowSecEntered(p) >= 1

\* the systems entered along path that have a cache entry of the security
\* class the preference disfavours
PenalisedEntered(path, preference) ==
  Cardinality({i \in 2..Len(path) :
                 /\ path[i] \in DOMAIN systemInfoCache
                 /\ \/ preference = "safer" /\ systemInfoCache[path[i]].SecurityStatus < 5
                    \/ preference = "unsafe" /\ systemInfoCache[path[i]].SecurityStatus >= 5})

\* one per jump and 100 per penalised system; a system without an entry
\* counts one
NeutralCost(path, preference) == (Len(path) - 1) + 100 * PenalisedEntered(path, preference)

\* C22: with a system missing from the cache, FindPreferredPath with
\* preference safer or unsafe completes: when a route avoids the exclusion
\* set it returns such a route, and no route costs less when entering a
\* system without an entry costs exactly 1.
C22_UnknownSystemsNeutral ==
  (/\ qpc = "respond" /\ q.pathfinder = "FindPreferredPath"
   /\ q.preference \in {"safer", "unsafe"}
   /\ \E n \in DOMAIN SearchedGraph : n \notin DOMAIN systemInfoCache) =>
    LET routes == {p \in SimpleRoutes(SearchedGraph, q.startID, q.endID) :
                     Avoids(p, q.avoidList)}
    IN  routes # {} =>
          /\ IsRoute(SearchedGraph, pathIDs, q.startID, q.endID)
          /\ \A p \in routes :
               NeutralCost(pathIDs, q.preference) <= NeutralCost(p, q.preference)

\* the returned route enters a system without a cache entry although a route
\* of the same length stays out of it (through a penalised system)
C22_Witness ==
  /\ qpc = "respond" /\ q.pathfinder = "FindPreferredPath" /\ q.preference = "safer"
  /\ \E i \in 2..Len(pathIDs) :
       /\ pathIDs[i] \notin DOMAIN systemInfoCache
       /\ \E p \in SimpleRoutes(SearchedGraph, q.startID, q.endID) :
            /\ pathIDs[i] \notin SeqToSet(p) /\ Len(p) = Len(pathIDs)
            /\ PenalisedEntered(p, "safer") >= 1

\* no system appears twice in path
NoRepeat(path) == \A i, j \in 1..Len(path) : i # j => path[i] # path[j]

\* the parents map that records exactly the links of path
ParentsOf(path) ==
  [n \in {path[i] : i \in 2..Len(path)} |->
     path[(CHOOSE i \in 2..Len(path) : path[i] = n) - 1]]

\* m without the key k: delete(m, k)
MapDelete(m, k) == [x \in (DOMAIN m) \ {k} |-> m[x]]

\* C23: a non-nil path a pathfinder returns starts with start, ends with
\* end, repeats no system and follows edges of the searched graph; and the
\* reconstruction over the parent links of that path, with any one link
\* missing, yields nil instead of the rest of the path.
C23_WellFormedResult ==
  (qpc = "respond" /\ pathIDs # <<>>) =>
    /\ IsRoute(SearchedGraph, pathIDs, q.startID, q.endID)
    /\ NoRepeat(pathIDs)
    /\ Reconstruct(ParentsOf(pathIDs), q.startID, q.endID, <<>>) = pathIDs
    /\ \A i \in 2..Len(pathIDs) :
         Reconstruct(MapDelete(ParentsOf(pathIDs), pathIDs[i]), q.startID, q.endID, <<>>) = <<>>

\* FindPreferredPath has returned a route of three jumps, whose parent chain
\* can break in the middle
C23_Witness ==
  /\ qpc = "respond" /\ q.pathfinder = "FindPreferredPath"
  /\ Len(pathIDs) = 4
  /\ Reconstruct(MapDelete(ParentsOf(pathIDs), pathIDs[3]), q.startID, q.endID, <<>>) = <<>>

\* ------------------------------------------------------------------------
\* Properties of the ESIClient caches
\* ------------------------------------------------------------------------
\* the systems the external collaborator has details of
KnownSystems == {1, 2, 3, 4, theraSystemID}

\* C24: a GetSystemDetails(id) call that has returned, for a system ESI
\* knows, has returned its details without error, and the details are in
\* systemInfoCache.
C24_ReadThroughDetails ==
  \A c \in ESICallers :
    (esi[c].op = "GetSystemDetails" /\ esi[c].pc = "done" /\ esi[c].id \in KnownSystems) =>
      /\ ~esi[c].err /\ esi[c].retSys # Nil
      /\ esi[c].id \in DOMAIN systemInfoCache

\* the ids cached for a name, whatever the case of the name or of the entry
MatchingIDs(name) ==
  {systemIDCache[key] : key \in {k \in DOMAIN systemIDCache : EqualFold(k, name)}}
    \cup {id \in DOMAIN systemInfoCache : EqualFold(systemInfoCache[id].Name, name)}

\* C25: a GetSystemID(name) call goes on to its /universe/ids/ request only
\* from a lookup that found no cached entry matching name in any case; a
\* lookup that finds one returns its id, and that call makes no request.
C25_CacheFirstResolution ==
  [][\A c \in ESICallers :
       (esi[c].op = "GetSystemID" /\ esi'[c] # esi[c]) =>
         /\ (esi'[c].pc = "request" \/ esi'[c].requests > esi[c].requests) =>
              \/ esi[c].pc = "lookup" /\ MatchingIDs(esi[c].name) = {}
              \/ esi[c].pc = "request"
         /\ (esi[c].pc = "lookup" /\ MatchingIDs(esi[c].name) # {}) =>
              /\ esi'[c].pc = "done" /\ ~esi'[c].err
              /\ esi'[c].retID \in MatchingIDs(esi[c].name)
              /\ esi'[c].requests = 0]_vars

\* a name typed in another case is answered from the entry an earlier call
\* stored
C25_Witness ==
  \E c \in ESICallers :
    /\ esi[c].op = "GetSystemID" /\ esi[c].pc = "done"
    /\ esi[c].name # SystemName(theraSystemID) /\ esi[c].requests = 0
    /\ esi[c].retID = theraSystemID
    /\ SystemName(theraSystemID) \notin DOMAIN systemIDCache

\* C26: no goroutine whose request is in flight holds cacheMutex, shared or
\* exclusive; and a call that has stored what ESI returned leaves one
\* entry for its key, with the value ESI returned, whoever else stored it.
C26_RequestsOutsideLock ==
  /\ \A c \in ESICallers :
       esi[c].pc = "request" => (cacheMutex.writer # c /\ c \notin cacheMutex.readers)
  /\ \A c \in ESICallers :
       (esi[c].pc = "done" /\ esi[c].requests = 1 /\ esi[c].respID # 0) =>
         /\ MatchingIDs(esi[c].name) = {ESIDirectory[ToLower(esi[c].name)]}
         /\ Cardinality({k \in DOMAIN systemIDCache : EqualFold(k, esi[c].name)}) = 1

\* both goroutines missed on the same name, both asked ESI and both stored
C26_Witness ==
  /\ \A c \in ESICallers :
       /\ esi[c].op = "GetSystemID" /\ esi[c].pc = "done"
       /\ esi[c].requests = 1 /\ esi[c].respID = theraSystemID
  /\ ToLower(esi["h1"].name) = ToLower(esi["h2"].name)

\* ------------------------------------------------------------------------
\* Properties of the persisted files and of the refresh loops
\* ------------------------------------------------------------------------
\* C27: what a handler has read from system_kills.json or from
\* tripwire_data.json is the whole of a content that was written (or no
\* file), never a file whose write is under way.
C27_CrashSafeSnapshots ==
  /\ loaded.kills # Partial
  /\ loaded.tripwire # Partial

\* the lines a re-login inside a cycle would log: Scraper.Login's success
\* line, or the caller's report of its failure
ReloginLines == {"[FETCHER] Successfully logged into Tripwire",
                 "[FETCHER] ERROR: Re-login failed"}

\* C28: a refresh cycle whose first fetch failed has attempted one login
\* before it gave up: the lines it logged after the fetch warning include the
\* outcome of that login.
C28_RetryAfterRelogin ==
  (proc = "running" /\ fpc = "idle" /\ tripwireErr /\ log["fetcher"] # <<>>
     /\ log["fetcher"][1] = FetchWarning) =>
    \E i \in 2..Len(log["fetcher"]) : log["fetcher"][i] \in ReloginLines

\* C29: in each refresh loop a cycle that has started comes to its end, so
\* that the loop is back at its ticker and the next cycle can start, whether
\* the cycle's external call succeeds, fails or does not answer (unless the
\* process has ended).
C29_NextCycleNotDelayed ==
  /\ (proc = "running" /\ fpc \notin {"login", "idle"}) ~> (fpc = "idle" \/ proc = "exited")
  /\ (tpc # "idle") ~> (tpc = "idle" \/ proc = "exited")
  /\ (kpc # "idle") ~> (kpc = "idle" \/ proc = "exited")

\* C30: the process ends only when the static stargate graph cannot be
\* built: a process that has exited has logged that failure, and no failure
\* of Tripwire, EVE-Scout or ESI ends it.
C30_OnlyStaticGraphFatal ==
  proc = "exited" => StaticGraphFatal \in SeqToSet(log["main"])

\* ------------------------------------------------------------------------
\* Properties of the refresh cycle, the searches and the resolver
\* ------------------------------------------------------------------------
SaveErrorLines == {"[FETCHER] ERROR: Failed to marshal data",
                   "[FETCHER] ERROR: Failed to write data to file"}

LastLine(g) == IF log[g] = <<>> THEN "" ELSE log[g][Len(log[g])]

OtherPathfinder ==
  IF q.pathfinder = "FindPreferredPath"
  THEN FindShortestPath(heap[q.graph], q.startID, q.endID, q.avoidList)
  ELSE FindPreferredPath(heap[q.graph], q.startID, q.endID, "shortest", q.avoidList)

\* C33: on a symmetric graph, with an avoid list that holds neither start nor
\* end, FindPreferredPath with preference shortest and FindShortestPath
\* return results of the same length: both nil, or routes with the same
\* number of jumps.
C33_PathfindersAgree ==
  (qpc = "respond" /\ q.preference = "shortest" /\ Symmetric(heap[q.graph])
     /\ q.startID \notin q.avoidList /\ q.endID \notin q.avoidList) =>
    Len(pathIDs) = Len(OtherPathfinder)

\* both find a two-jump route from 1 to 4 round the avoided system 2, which
\* lies on another two-jump route
C33_Witness ==
  /\ qpc = "respond" /\ q.pathfinder = "FindShortestPath"
  /\ q.startID = 1 /\ q.endID = 4 /\ q.avoidList = {2}
  /\ HasEdge(heap[q.graph], 1, 2) /\ HasEdge(heap[q.graph], 2, 4)
  /\ ~HasEdge(heap[q.graph], 1, 4)
  /\ pathIDs = <<1, 3, 4>> /\ OtherPathfinder = <<1, 3, 4>>

\* C34: the counter of servicesWg is never negative, and when main's
\* servicesWg.Wait() has returned every service goroutine that calls wg.Done
\* has returned.
C34_ShutdownAccounting ==
  /\ servicesWg >= 0
  /\ mpc = "done" => \A s \in SeqToSet(Services) : svc[s] = "returned"

\* ------------------------------------------------------------------------
\* C35
\* ------------------------------------------------------------------------
\* who holds which mutex, by where each goroutine stands in its code
FetcherHoldsGraph == fpc \in {"swap", "unlock"}
TheraHoldsGraph == tpc \in {"insert", "dedup", "unlock"}
QueryHoldsGraph == qpc \in {"search", "nbr", "drlock", "dread", "runlock"}

\* a goroutine stands at a Lock or RLock call
WaitsForLock ==
  \/ fpc = "lock" \/ tpc = "lock" \/ qpc \in {"rlock", "drlock"}
  \/ esi[Resolver].pc \in {"rlock", "lock"}

\* C35: each mutex is held exactly by the goroutines standing between an
\* acquisition and its release, so none holds one after it has returned; a
\* goroutine about to make a network call (Tripwire login or fetch, the
\* EVE-Scout fetch, an ESI request) does not hold graphMutex; the query is
\* the only one to hold both mutexes and takes cacheMutex after graphMutex;
\* and whenever a goroutine waits for a mutex, some goroutine can take, use
\* or release one.
C35_LocksReleasedNoDeadlock ==
  /\ graphMutex.writer = (IF FetcherHoldsGraph THEN "fetcher"
                          ELSE IF TheraHoldsGraph THEN "thera" ELSE "none")
  /\ graphMutex.readers = (IF QueryHoldsGraph THEN 1 ELSE 0)
  /\ cacheMutex.readers = (IF qpc = "dread" THEN {"query"} ELSE {})
                            \cup (IF esi[Resolver].pc = "lookup" THEN {Resolver} ELSE {})
  /\ cacheMutex.writer = (IF esi[Resolver].pc = "store" THEN Resolver ELSE "none")
  /\ fpc \in {"login", "idle"} => ~FetcherHoldsGraph
  /\ tpc = "idle" => ~TheraHoldsGraph
  /\ esi[Resolver].pc = "request" =>
       (Resolver \notin cacheMutex.readers /\ cacheMutex.writer # Resolver)
  /\ "query" \in cacheMutex.readers => QueryHoldsGraph
  /\ WaitsForLock => ENABLED LockSteps

\* the query holds graphMutex and cacheMutex for reading at once, while the
\* fetcher waits for graphMutex and the resolver waits to store in the cache
C35_Witness ==
  /\ qpc = "dread" /\ graphMutex.readers = 1 /\ "query" \in cacheMutex.readers
  /\ fpc = "lock" /\ tpc = "lock"
  /\ esi[Resolver].pc = "lock"
  /\ GetSystemDetails(Nbrs(heap[q.graph], q.st.currentID)[q.st.i]).err

\* ------------------------------------------------------------------------
\* C36
\* ------------------------------------------------------------------------
\* the path the query's pathfinder returns for the query's arguments in the
\* current state
SameQueryAgain ==
  IF q.pathfinder = "FindPreferredPath"
  THEN FindPreferredPath(heap[q.graph], q.startID, q.endID, q.preference, q.avoidList)
  ELSE FindShortestPath(heap[q.graph], q.startID, q.endID, q.avoidList)

RequestFails(c) ==
  /\ esi[c].op \in {"GetSystemID", "getName"}
  /\ esi[c].pc = "request" /\ esi'[c].pc = "done"

\* the step of caller c that ends a call whose request succeeded
RequestStored(c) ==
  /\ esi[c].op \in {"GetSystemID", "getName"}
  /\ esi[c].pc = "store" /\ esi'[c].pc = "done"

\* the lookup of caller c, for a name or id an earlier call stored
LookupOfStored(c) ==
  /\ esi[c].pc = "lookup" /\ esi'[c] # esi[c]
  /\ \/ esi[c].op = "GetSystemID" /\ ToLower(esi[c].name) \in DOMAIN systemIDCache
     \/ esi[c].op = "getName" /\ esi[c].id \in DOMAIN nameCache

\* C37: a GetSystemID or getName call whose request fails or finds nothing
\* changes none of systemIDCache, nameCache and systemInfoCache and returns
\* an error (id 0) or "Unknown"; one whose request succeeds returns what ESI
\* answered and leaves it in the cache under the lower-cased name or the id;
\* a stored entry keeps its value; and a lookup of a stored name, in any
\* case, or of a stored id returns the stored value without a request.
C37_CacheWritesOnlyOnSuccess ==
  [][\A c \in ESICallers :
       /\ RequestFails(c) =>
            /\ systemIDCache' = systemIDCache /\ nameCache' = nameCache
            /\ systemInfoCache' = systemInfoCache
            /\ esi[c].op = "GetSystemID" => (esi'[c].err /\ esi'[c].retID = 0)
            /\ esi[c].op = "getName" => esi'[c].retName = Unknown
       /\ RequestStored(c) =>
            /\ esi[c].op = "GetSystemID" =>
                 /\ ~esi'[c].err /\ esi'[c].retID = ESIDirectory[ToLower(esi[c].name)]
                 /\ ToLower(esi[c].name) \in DOMAIN systemIDCache'
                 /\ systemIDCache'[ToLower(esi[c].name)] = esi'[c].retID
            /\ esi[c].op = "getName" =>
                 /\ esi'[c].retName = SystemName(esi[c].id)
                 /\ esi[c].id \in DOMAIN nameCache'
                 /\ nameCache'[esi[c].id] = esi'[c].retName
       /\ \A k \in DOMAIN systemIDCache :
            k \in DOMAIN systemIDCache' /\ systemIDCache'[k] = systemIDCache[k]
       /\ \A id \in DOMAIN nameCache :
            id \in DOMAIN nameCache' /\ nameCache'[id] = nameCache[id]
       /\ LookupOfStored(c) =>
            /\ esi'[c].pc = "done" /\ esi'[c].requests = 0 /\ ~esi'[c].err
            /\ esi[c].op = "GetSystemID" =>
                 esi'[c].retID = systemIDCache[ToLower(esi[c].name)]
            /\ esi[c].op = "getName" => esi'[c].retName = nameCache[esi[c].id]]_vars

\* after a getName request has failed, leaving nameCache empty, and a
\* GetSystemID request for Thera has succeeded, the same name in capitals is
\* answered from the cache
C37_Witness ==
  /\ esi["h1"].op = "GetSystemID" /\ esi["h1"].pc = "done"
  /\ esi["h1"].name = <<"T", "H", "E", "R", "A">> /\ esi["h1"].requests = 0
  /\ esi["h1"].retID = theraSystemID
  /\ DOMAIN systemIDCache = {ToLower(SystemName(theraSystemID))}
  /\ esi["h2"].op = "getName" /\ esi["h2"].pc = "done"
  /\ esi["h2"].requests = 1 /\ esi["h2"].retName = Unknown
  /\ DOMAIN nameCache = {}

\* ------------------------------------------------------------------------
\* C38
\* ------------------------------------------------------------------------
\* the payload of the cycle has a wormhole record the combined merge
\* accepts: both signatures known, both system ids non-zero
HasValidRecord ==
  /\ tripwireData # Nil
  /\ \E w \in DOMAIN tripwireData.Wormholes :
       CombinedRecordValid(tripwireData, tripwireData.Wormholes[w])

\* C38: in the combined build, the step that follows a successful Tripwire
\* fetch whose payload has a valid wormhole record takes the cycle to
\* graphMutex.Lock with the process still running.
C38_ValidCycleReachesSwap ==
  [][(build = "combined" /\ fpc = "merge" /\ HasValidRecord) =>
       (fpc' = "lock" /\ proc' = "running")]_vars

\* ------------------------------------------------------------------------
\* C39
\* ------------------------------------------------------------------------
\* C39: the workers started are one per system of the path, in its order; a
\* worker that is writing intelMap holds the mutex, so no two write at once;
\* intelMap only holds entries workers have written; and when
\* fetchIntelForPath has returned, every system of the path has had its
\* worker, every worker has returned, and intelMap has the entry of every
\* system of the path and of no other.
C39_IntelFanOut ==
  /\ Len(workers) <= Len(iPath)
  /\ \A w \in DOMAIN workers : workers[w].sysID = iPath[w]
  /\ \A w \in DOMAIN workers : workers[w].pc = "write" => intelMu = w
  /\ \A v, w \in DOMAIN workers :
       (workers[v].pc = "write" /\ workers[w].pc = "write") => v = w
  /\ intelWg = Cardinality({w \in DOMAIN workers : workers[w].pc # "returned"})
  /\ DOMAIN intelMap =
       {workers[w].sysID : w \in {v \in DOMAIN workers :
                                    workers[v].pc \in {"unlock", "deferred", "returned"}}}
  /\ ipc \in {"wait", "done"} => Len(workers) = Len(iPath)
  /\ ipc = "done" =>
       /\ \A w \in DOMAIN workers : workers[w].pc = "returned"
       /\ intelMu = 0
       /\ DOMAIN intelMap = SeqToSet(iPath)
       /\ \A id \in SeqToSet(iPath) : intelMap[id] = IntelOf(id)

\* fetchIntelForPath has returned the intel of a route of three systems,
\* one of them without details in the cache
C39_Witness ==
  /\ ipc = "done" /\ Len(iPath) = MaxIntelPath
  /\ theraSystemID \in DOMAIN intelMap
  /\ intelMap[theraSystemID].SecDisplay = "N/A"
  /\ intelMap[1].KillCount = 2

====
